---- MODULE Spec2Model ----
(***************************************************************************)
(* A model of semantic_kernel.orchestration.sk_function.SKFunction: one    *)
(* function object (native or semantic), the execution contexts it is      *)
(* invoked on, the chat history of its prompt template, the settings       *)
(* mapping its caller holds, and the calls made on it.                      *)
(*                                                                         *)
(* A call is a task.  A task runs from its start to the first await, and   *)
(* from one await to the next, in one step: the awaits are the rendering   *)
(* of the prompt, the call of the model backend and the body of an         *)
(* asynchronous native function.                                           *)
(***************************************************************************)
EXTENDS Integers, Sequences, FiniteSets, TLC

VARIABLES
    fn,            \* the SKFunction object
    ctx,           \* the SKContext objects, by identity
    live,          \* the identities of the SKContext objects that exist
    history,       \* the chat history held by the function's ChatPromptTemplate
    userSettings,  \* the settings mapping (a dict) the caller holds
    task,          \* the calls: position, arguments, and how each ended
    backend,       \* the model-backend object the caller holds
    openai,        \* the settings of the openai module, shared by all backends
    kernel         \* the KernelBuilder, its configuration and the kernel it built

vars == <<fn, ctx, live, history, userSettings, task, backend, openai, kernel>>

None == "None"

(* ------------------------------ bounds -------------------------------- *)

\* The number of chat invocations that may append to one chat history.
MaxExchanges == 2

Tasks == {"t1"}
CtxIds == {"c1"}

\* The texts given to the embedding backend: at most MaxTexts in one call.
MaxTexts == 3
EmbeddedTexts == {"a", "b"}

\* The calls and the contexts of two interleaved invocations.
AllTasks == {"t1", "t2"}
AllCtxIds == {"c1", "c2"}
Regs == {"R1", "R2"}
Inputs == {"", "abc"}
Replies == {"REPLY", "other reply"}
Prompts == {"p1", "p2"}

(* ----------------------------- dictionaries --------------------------- *)

EmptyMap == [k \in {} |-> 0]

\* dict.update(other): other's value for every key of other, the rest kept.
DictUpdate(d, other) ==
    [k \in (DOMAIN d) \cup (DOMAIN other) |->
        IF k \in DOMAIN other THEN other[k] ELSE d[k]]

\* function_config.prompt_template_config.completion.__dict__
ConfigSettings == [temperature |-> 0, max_tokens |-> 256]

\* The mappings a caller builds to pass as `settings`.
CallerSettings ==
    { EmptyMap, [temperature |-> 1], [extra |-> 5],
      [temperature |-> 1, extra |-> 5] }

(* ------------------------------ exceptions ---------------------------- *)

NoExc == [type |-> "none", code |-> "none", msg |-> ""]

Exc(type, code, msg) == [type |-> type, code |-> code, msg |-> msg]

\* str(e) of an exception built from one message.
Str(e) == e.msg

\* Verify.not_null(value, message): raises when the value is None.
VerifyNotNull(value, message) ==
    IF value = None THEN Exc("ValidationError", "NullValue", message) ELSE NoExc

\* KernelException(ErrorCodes.InvalidFunctionType, message)
KernelException(code, message) == Exc("KernelException", code, message)

(* ------------------- ContextVariables and SKContext ------------------- *)

\* ContextVariables(content): the default key holds content.
ContextVariables(content) == [input |-> content]

\* ContextVariables.update(value): sets the default key.
VariablesUpdate(variables, value) == [variables EXCEPT !["input"] = value]

\* ContextVariables.merge_or_overwrite(other): right-biased merge.
MergeOrOverwrite(variables, other) == DictUpdate(variables, other)

\* SKContext(variables, memory, skills, log): no failure recorded.
SKContext(variables, memory, skills) ==
    [ variables |-> variables, memory |-> memory, skills |-> skills,
      error_occurred |-> FALSE, last_error_description |-> "",
      last_exception |-> NoExc ]

\* SKContext.fail(description, exception)
Fail(c, description, e) ==
    [c EXCEPT !.error_occurred = TRUE,
              !.last_error_description = description,
              !.last_exception = e]

\* The value of ctx at an identity no object has.
NoContext == SKContext(ContextVariables(""), None, None)

FreeId(lv) == CHOOSE c \in CtxIds \ lv : TRUE

(* ------------------------------ SKFunction ---------------------------- *)

\* SKFunction.__init__: neither a registry nor a backend is bound.
SKFunctionInit(delegate_type, delegate_function, parameters, description, skill_name, function_name, is_semantic, has_chat_prompt) ==
    [ delegate_type |-> delegate_type, function |-> delegate_function,
      parameters |-> parameters, description |-> description,
      skill_name |-> skill_name, name |-> function_name,
      is_semantic |-> is_semantic, has_chat_prompt |-> has_chat_prompt,
      skill_collection |-> None, ai_backend |-> None ]

\* No SKFunction object.
NoFunction ==
    [ delegate_type |-> "none", function |-> "none",
      parameters |-> <<>>, description |-> "none",
      skill_name |-> "none", name |-> "none",
      is_semantic |-> FALSE, has_chat_prompt |-> FALSE,
      skill_collection |-> None, ai_backend |-> None ]

\* The calling conventions of the native functions of the model.
NativeDelegateTypes == {"InStringOutString", "InStringOutTaskString"}

\* The bodies of the native functions of the model: Echo returns its input
\* unchanged, Throw always raises.
NativeBodies == {"Echo", "Throw"}

\* The declared shapes of the host functions of the model.
Signatures == {"str -> str", "async str -> str", "int -> int"}

\* The tags from_native_method reads without a hasattr test.
RequiredTags ==
    {"__sk_function__", "__sk_function_name__", "__sk_function_description__"}

\* The host functions of the model: a body, a declared shape, and the
\* required tags attached to it (all of them, or all but one).
Methods ==
    [ body : NativeBodies, signature : Signatures,
      tags : {RequiredTags} \cup {RequiredTags \ {g} : g \in RequiredTags} ]

NoMethod == [body |-> "none", signature |-> "none", tags |-> {}]

\* DelegateInference.infer_delegate_type: the calling convention of a
\* declared shape, "Unknown" when no supported shape matches.
InferDelegateType(method) ==
    IF method.signature = "str -> str" THEN "InStringOutString"
    ELSE IF method.signature = "async str -> str" THEN "InStringOutTaskString"
    ELSE "Unknown"

\* What inference raises when no supported shape matches.
UnsupportedSignature ==
    KernelException("FunctionTypeNotSupported", "unsupported function signature")

\* The read of a tag that is not attached to the method.
AttributeError(tag) == Exc("AttributeError", "none", tag)

\* The SKFunction from_native_method builds once its checks have passed.
NativeFunction(method, skill_name) ==
    SKFunctionInit(InferDelegateType(method), method.body, <<>>, "description",
                   skill_name, "function", FALSE, FALSE)

\* A from_native_method that builds the function without the required-tag
\* checks and without the inference, which is left to the call.
FromNativeMethodUnchecked(method, skill_name) ==
    [exc |-> NoExc, f |-> NativeFunction(method, skill_name)]

\* SKFunction.from_native_method: the exception it raises (or none) and the
\* function it returns (or none), in the order of lines 42, 43, 68 and 71.
FromNativeMethod(method, skill_name) ==
    LET failed(e) == [exc |-> e, f |-> NoFunction] IN
    IF "__sk_function__" \notin method.tags
    THEN failed(AttributeError("__sk_function__"))
    ELSE IF "__sk_function_name__" \notin method.tags
    THEN failed(AttributeError("__sk_function_name__"))
    ELSE IF InferDelegateType(method) = "Unknown"
    THEN failed(UnsupportedSignature)
    ELSE IF "__sk_function_description__" \notin method.tags
    THEN failed(AttributeError("__sk_function_description__"))
    ELSE [exc |-> NoExc, f |-> NativeFunction(method, skill_name)]

\* SKFunction.from_semantic_config
FromSemanticConfig(has_chat_prompt) ==
    SKFunctionInit("ContextSwitchInSKContextOutTaskSKContext", "_local_func",
                   <<"input">>, "description", "skill", "function",
                   TRUE, has_chat_prompt)

\* FunctionView(name, skill_name, description, is_semantic, parameters)
FunctionView(f) ==
    [ name |-> f.name, skill_name |-> f.skill_name, description |-> f.description,
      is_semantic |-> f.is_semantic, parameters |-> f.parameters ]

NoView == FunctionView(NoFunction)

\* A _verify_is_semantic that raises an exception without an error code.
VerifyIsSemanticUncoded(f) ==
    IF f.is_semantic THEN NoExc
    ELSE Exc("ValueError", "none",
            "Invalid operation, the method requires a semantic function")

\* SKFunction._verify_is_semantic
VerifyIsSemantic(f) ==
    IF f.is_semantic THEN NoExc
    ELSE KernelException("InvalidFunctionType",
            "Invalid operation, the method requires a semantic function")

\* SKFunction._verify_is_native
VerifyIsNative(f) ==
    IF ~f.is_semantic THEN NoExc
    ELSE KernelException("InvalidFunctionType",
            "Invalid operation, the method requires a native function")

\* An _ensure_context_has_skills that attaches the function's registry to
\* every context.
EnsureContextHasSkillsAlways(f, c) == [c EXCEPT !.skills = f.skill_collection]

\* SKFunction._ensure_context_has_skills
EnsureContextHasSkills(f, c) ==
    IF c.skills # None THEN c ELSE [c EXCEPT !.skills = f.skill_collection]

(* -------------------------------- tasks ------------------------------- *)

IdleTask ==
    [ pc |-> "idle", op |-> "none",
      argInput |-> None, argContext |-> None,
      argHasSettings |-> FALSE, argSettings |-> EmptyMap,
      argFactory |-> None,
      argMethod |-> NoMethod,  \* the method given to from_native_method
      view |-> NoView,         \* what describe returned
      wasFailed |-> FALSE,     \* the failure slot of the context at the call
      argTexts |-> <<>>,       \* the texts given to generate_embeddings_async
      response |-> [has_data |-> FALSE, data |-> <<>>],
      embeddings |-> [ndarray |-> <<>>],
      argModel |-> None,       \* model_id or deployment_name given to a backend
      argKey |-> None,         \* api_key given to a backend
      argEndpoint |-> None,    \* endpoint given to an Azure backend
      argHistory |-> <<>>,     \* chat_history given to the chat backend
      argPrompt |-> None,      \* prompt given to the text backend
      argKwargs |-> EmptyMap,  \* **kwargs given to the backend
      hooksRun |-> 0,          \* pre-hooks awaited
      apiCalls |-> 0,          \* calls of acreate
      apiArgs |-> EmptyMap,    \* the keyword arguments of acreate (model_args)
      apiInput |-> <<>>,       \* messages= or prompt= of acreate
      apiResponse |-> [has_choices |-> FALSE, choices |-> <<>>],
      result |-> None,         \* what the backend operation returned
      argStorage |-> None,     \* storage given to use_memory or with_memory_storage
      argGenerator |-> None,   \* embeddings_generator given to use_memory
      registerCalls |-> 0,     \* calls of kernel.register_memory
      tmp |-> None,            \* tmp_context of invoke_with_custom_input_async
      context |-> None,        \* the context invoke_async works on
      settingsRef |-> "none",  \* request_settings: the caller's dict or a new one
      localSettings |-> EmptyMap,
      messages |-> <<>>,       \* the rendered chat messages
      prompt |-> "",           \* the rendered plain prompt
      nativeArg |-> "",        \* the argument the handler passed to the native body
      bodyCalls |-> 0,         \* calls of the native body
      completion |-> "",       \* what the backend call returned
      thrown |-> NoExc,        \* what the rendering or the backend call raised
      escaped |-> NoExc,       \* the exception that left invoke_async
      calls |-> 0,             \* backend operations called
      sent |-> EmptyMap,       \* the keyword arguments of the backend call
      factoryCalls |-> 0,      \* backend factories called
      outcome |-> "none", ret |-> None, exc |-> NoExc ]

AllIdle == \A t \in Tasks : task[t].pc = "idle"

\* The part of the state one call works on.
StateOf(t) ==
    [ctx |-> ctx, live |-> live, us |-> userSettings, hist |-> history,
     tk |-> task[t]]

\* The call returns context c.
Returned(st, c) ==
    [st EXCEPT !.tk.pc = "done", !.tk.outcome = "returned", !.tk.ret = c]

\* The call raises e.
Raised(st, e) ==
    [st EXCEPT !.tk.pc = "done", !.tk.outcome = "raised", !.tk.exc = e]

(* ----------------- invoke_with_custom_input_async: catch -------------- *)

\* A boundary that lets the exception through.
CatchAtBoundaryReraises(st, e) == Raised(st, e)

\* invoke_with_custom_input_async, `except Exception as e`: the failure is
\* recorded on tmp_context, which is returned.
CatchAtBoundary(st, e) ==
    Returned([st EXCEPT !.ctx[st.tk.tmp] = Fail(@, Str(e), e)], st.tk.tmp)

\* An exception leaves invoke_async: it reaches the caller, or the handler
\* of invoke_with_custom_input_async.
Escapes(st, e) ==
    IF st.tk.op = "invoke_with_custom_input_async"
    THEN CatchAtBoundary([st EXCEPT !.tk.escaped = e], e)
    ELSE Raised([st EXCEPT !.tk.escaped = e], e)

(* --------------------------- semantic functions ----------------------- *)

\* _local_func, lines 90-95: the settings the backend is given.
MergeSettings(request_settings, config_settings) ==
    DictUpdate(request_settings, config_settings)

\* request_settings of the call: the caller's dict, or the one line 91 made.
RequestSettings(st) ==
    IF st.tk.settingsRef = "user" THEN st.us ELSE st.tk.localSettings

\* A _local_func that is suspended before it merges the settings.
LocalFuncStartSuspends(st) ==
    IF VerifyNotNull(fn.ai_backend, "AI LLM backend is empty") # NoExc
    THEN Escapes(st, VerifyNotNull(fn.ai_backend, "AI LLM backend is empty"))
    ELSE [st EXCEPT !.tk.pc = "settings"]

\* _local_func from its start to the first await (the rendering).
LocalFuncStart(st) ==
    IF VerifyNotNull(fn.ai_backend, "AI LLM backend is empty") # NoExc
    THEN Escapes(st, VerifyNotNull(fn.ai_backend, "AI LLM backend is empty"))
    ELSE IF st.tk.argHasSettings
    THEN [st EXCEPT !.us = MergeSettings(@, ConfigSettings),
                    !.tk.settingsRef = "user", !.tk.pc = "render"]
    ELSE [st EXCEPT !.tk.localSettings = MergeSettings(EmptyMap, ConfigSettings),
                    !.tk.settingsRef = "local", !.tk.pc = "render"]

\* An _invoke_semantic_async that returns the context with its variables
\* merged and its failure slot reset.
SemanticReturnResets(st) ==
    LET c == st.tk.context IN
    Returned([st EXCEPT !.ctx[c] =
                SKContext(MergeOrOverwrite(@.variables, @.variables),
                          @.memory, @.skills)], c)

\* _invoke_semantic_async after _local_func returned new_context, which is
\* the context it was given.
SemanticReturn(st) ==
    LET c == st.tk.context IN
    Returned([st EXCEPT !.ctx[c].variables =
                            MergeOrOverwrite(@, st.ctx[c].variables)], c)

\* A _local_func without its try: the exception leaves it.
LocalFuncExceptMissing(st, e) == Escapes(st, e)

\* A _local_func whose handler also writes the message of the exception to
\* the default variable and records the rendered user message.
LocalFuncExceptStoresError(st, e) ==
    LET c == st.tk.context IN
    SemanticReturn(
        [st EXCEPT !.ctx[c] = Fail([@ EXCEPT !.variables = VariablesUpdate(@, Str(e))],
                                   Str(e), e),
                   !.hist = IF st.tk.messages = <<>> THEN @
                            ELSE Append(@, st.tk.messages[Len(st.tk.messages)])])

\* _local_func, `except Exception as e`: context.fail, then return context.
LocalFuncExcept(st, e) ==
    SemanticReturn([st EXCEPT !.ctx[st.tk.context] = Fail(@, Str(e), e)])

\* An _invoke_semantic_async that enters the rendering whether or not a
\* backend is bound.
InvokeSemanticUnguarded(st) ==
    LET c == st.tk.context IN
    [st EXCEPT !.ctx[c] = EnsureContextHasSkills(fn, @),
               !.tk.localSettings = MergeSettings(EmptyMap, ConfigSettings),
               !.tk.settingsRef = "local", !.tk.pc = "render"]

\* An _invoke_semantic_async that tests the backend before it touches the
\* context.
InvokeSemanticChecksFirst(st) ==
    LET c  == st.tk.context
        s1 == [st EXCEPT !.ctx[c] = EnsureContextHasSkills(fn, @)]
    IN  IF VerifyIsSemantic(fn) # NoExc THEN Escapes(st, VerifyIsSemantic(fn))
        ELSE IF fn.ai_backend = None
        THEN Escapes(st, Exc("ValueError", "none", "AI LLM backend is empty"))
        ELSE LocalFuncStart(s1)

\* _invoke_semantic_async up to the first await.
InvokeSemantic(st) ==
    LET c  == st.tk.context
        s1 == [st EXCEPT !.ctx[c] = EnsureContextHasSkills(fn, @)]
    IN  IF VerifyIsSemantic(fn) # NoExc THEN Escapes(st, VerifyIsSemantic(fn))
        ELSE IF fn.ai_backend = None
        THEN Escapes(s1, Exc("ValueError", "none", "AI LLM backend is empty"))
        ELSE LocalFuncStart(s1)

\* ChatPromptTemplate.render_messages_async: the history, then the rendered
\* template as the last, user, message.
RenderMessages(hist, rendered) == Append(hist, <<"user", rendered>>)

\* ChatPromptTemplate.add_user_message / add_assistant_message
AddMessage(hist, role, content) == Append(hist, <<role, content>>)

RenderError == Exc("Exception", "none", "render failed")
BackendError == Exc("Exception", "none", "backend failed")

\* The backend operation is called with the rendering and the settings.
CallBackend(st) ==
    [st EXCEPT !.tk.calls = @ + 1, !.tk.sent = RequestSettings(st),
               !.tk.pc = "backend"]

\* _local_func from the end of the rendering to the await of the backend.
AfterRender(st, ok, rendered) ==
    IF ~ok THEN LocalFuncExcept([st EXCEPT !.tk.thrown = RenderError], RenderError)
    ELSE IF fn.has_chat_prompt
    THEN CallBackend([st EXCEPT !.tk.messages = RenderMessages(st.hist, rendered)])
    ELSE CallBackend([st EXCEPT !.tk.prompt = rendered])

\* A _local_func that appends the reply before the user message.
AppendExchangeSwapped(hist, messages, completion) ==
    LET content == messages[Len(messages)][2] IN
    AddMessage(AddMessage(hist, "assistant", completion), "user", content)

\* _local_func, lines 113-115: the chat history after a completion.
AppendExchange(hist, messages, completion) ==
    LET content == messages[Len(messages)][2] IN
    AddMessage(AddMessage(hist, "user", content), "assistant", completion)

\* A _local_func that does not write the completion back.
StoreNothing(variables, completion) == variables

\* _local_func, lines 118 and 124: context.variables.update(completion)
StoreCompletion(variables, completion) == VariablesUpdate(variables, completion)

\* A _local_func that stores as the history the messages it rendered,
\* followed by the reply.
AfterBackendFromRendering(st, ok, completion) ==
    LET c == st.tk.context IN
    IF ~ok THEN LocalFuncExcept([st EXCEPT !.tk.thrown = BackendError], BackendError)
    ELSE IF fn.has_chat_prompt
    THEN SemanticReturn(
            [st EXCEPT !.tk.completion = completion,
                       !.hist = AddMessage(st.tk.messages, "assistant", completion),
                       !.ctx[c].variables = StoreCompletion(@, completion)])
    ELSE SemanticReturn(
            [st EXCEPT !.tk.completion = completion,
                       !.ctx[c].variables = StoreCompletion(@, completion)])

\* _local_func from the end of the backend call to its return.
AfterBackend(st, ok, completion) ==
    LET c == st.tk.context IN
    IF ~ok THEN LocalFuncExcept([st EXCEPT !.tk.thrown = BackendError], BackendError)
    ELSE IF fn.has_chat_prompt
    THEN SemanticReturn(
            [st EXCEPT !.tk.completion = completion,
                       !.hist = AppendExchange(@, st.tk.messages, completion),
                       !.ctx[c].variables = StoreCompletion(@, completion)])
    ELSE SemanticReturn(
            [st EXCEPT !.tk.completion = completion,
                       !.ctx[c].variables = StoreCompletion(@, completion)])

(* ---------------------------- native functions ------------------------ *)

\* The native body run on its argument: its return value, or what it raises.
NativeBody(method, arg) ==
    IF method = "Echo"
    THEN [ok |-> TRUE, value |-> arg, exc |-> NoExc]
    ELSE [ok |-> FALSE, value |-> "", exc |-> Exc("Exception", "none", "boom")]

\* The handlers of the string-in, string-out conventions, after the body
\* ended: the returned string is stored in the default variable and the
\* context is returned; an exception of the body is not caught.
HandlerFinish(st) ==
    LET c == st.tk.context
        r == NativeBody(fn.function, st.tk.nativeArg)
    IN  IF r.ok
        THEN Returned([st EXCEPT !.ctx[c].variables = VariablesUpdate(@, r.value)], c)
        ELSE Escapes(st, r.exc)

\* DelegateHandlers.get_handler(delegate_type)(function, context): the
\* handler passes the default variable to the body; a synchronous body has
\* ended when the handler is resumed, an asynchronous one is awaited.
HandlerCall(st) ==
    LET c  == st.tk.context
        s1 == [st EXCEPT !.tk.nativeArg = st.ctx[c].variables["input"],
                         !.tk.bodyCalls = @ + 1]
    IN  IF fn.delegate_type \notin NativeDelegateTypes
        THEN Escapes(st, UnsupportedSignature)
        ELSE IF fn.delegate_type = "InStringOutString"
        THEN HandlerFinish(s1)
        ELSE [s1 EXCEPT !.tk.pc = "native"]

\* An _invoke_native_async that records the exception of the native body on
\* the context and returns the context.
InvokeNativeCatching(st) ==
    LET c  == st.tk.context
        s1 == [st EXCEPT !.ctx[c] = EnsureContextHasSkills(fn, @)]
        r  == HandlerCall(s1)
    IN  IF VerifyIsNative(fn) # NoExc THEN Escapes(st, VerifyIsNative(fn))
        ELSE IF r.tk.escaped # NoExc
        THEN Returned([s1 EXCEPT !.tk = [r.tk EXCEPT !.escaped = NoExc, !.exc = NoExc],
                                 !.ctx[c] = Fail(@, Str(r.tk.escaped), r.tk.escaped)], c)
        ELSE r

\* _invoke_native_async
InvokeNative(st) ==
    LET c  == st.tk.context
        s1 == [st EXCEPT !.ctx[c] = EnsureContextHasSkills(fn, @)]
    IN  IF VerifyIsNative(fn) # NoExc THEN Escapes(st, VerifyIsNative(fn))
        ELSE HandlerCall(s1)

(* ------------------------------ invoke_async -------------------------- *)

\* An invoke_async that tests `if input:`.
WriteInputIfTruthy(variables, input) ==
    IF input # None /\ input # "" THEN VariablesUpdate(variables, input) ELSE variables

\* invoke_async, lines 228-229
WriteInput(variables, input) ==
    IF input # None THEN VariablesUpdate(variables, input) ELSE variables

\* An invoke_async that does not require a registry.
RequireNothing(f) == NoExc

\* invoke_async, lines 216-218: what is raised when the call has no context.
RequireSkillCollection(f) ==
    IF VerifyNotNull(f.skill_collection, "Skill collection is empty") # NoExc
    THEN VerifyNotNull(f.skill_collection, "Skill collection is empty")
    ELSE IF f.skill_collection = None
    THEN Exc("AssertionError", "none", "")
    ELSE NoExc

\* An invoke_async that returns a failed context as it is, without calling
\* the function.
DispatchUnlessFailed(st) ==
    IF st.ctx[st.tk.context].error_occurred THEN Returned(st, st.tk.context)
    ELSE IF fn.is_semantic THEN InvokeSemantic(st) ELSE InvokeNative(st)

\* invoke_async, lines 231-234
Dispatch(st) ==
    IF fn.is_semantic THEN InvokeSemantic(st) ELSE InvokeNative(st)

\* An invoke_async that works on one context the function keeps, whatever
\* context it is given.
InvokeAsyncBodyOnKeptContext(st) ==
    LET c == CHOOSE x \in AllCtxIds : x \in st.live \/ st.live = {} IN
    IF st.tk.argContext = None
    THEN Escapes(st, RequireSkillCollection(fn))
    ELSE Dispatch(
            [st EXCEPT !.ctx[c].variables = WriteInput(@, st.tk.argInput),
                       !.tk.context = c,
                       !.tk.wasFailed = st.ctx[c].error_occurred])

\* invoke_async, from its start to the first await or to its end.
InvokeAsyncBody(st) ==
    IF st.tk.argContext = None
    THEN IF RequireSkillCollection(fn) # NoExc
         THEN Escapes(st, RequireSkillCollection(fn))
         ELSE LET c == FreeId(st.live) IN
              Dispatch(
                [st EXCEPT
                   !.live = @ \cup {c},
                   !.ctx[c] = [SKContext(ContextVariables(""), "NullMemory",
                                         fn.skill_collection)
                                 EXCEPT !.variables = WriteInput(@, st.tk.argInput)],
                   !.tk.context = c])
    ELSE LET c == st.tk.argContext IN
         Dispatch(
            [st EXCEPT !.ctx[c].variables = WriteInput(@, st.tk.argInput),
                       !.tk.context = c,
                       !.tk.wasFailed = st.ctx[c].error_occurred])

\* A step of a call that makes the registry of the context it returns the
\* default registry of the function.
CommitAdoptsRegistry(t, st) ==
    /\ ctx' = st.ctx
    /\ live' = st.live
    /\ userSettings' = st.us
    /\ history' = st.hist
    /\ task' = [task EXCEPT ![t] = st.tk]
    /\ fn' = IF st.tk.ret # None
             THEN [fn EXCEPT !.skill_collection = st.ctx[st.tk.ret].skills]
             ELSE fn
    /\ UNCHANGED <<backend, openai, kernel>>

\* The state after a step of task t.
Commit(t, st) ==
    /\ ctx' = st.ctx
    /\ live' = st.live
    /\ userSettings' = st.us
    /\ history' = st.hist
    /\ task' = [task EXCEPT ![t] = st.tk]
    /\ UNCHANGED <<fn, backend, openai, kernel>>

\* A chat invocation is started only on a history within the bound.
HistoryRoom == fn.has_chat_prompt => Len(history) < 2 * MaxExchanges

(* -------------------------------- actions ----------------------------- *)

\* await f.invoke_async(input, context, settings)
InvokeAsync(t, input, c, withSettings) ==
    /\ task[t].pc = "idle"
    /\ c \in live \cup {None}
    /\ c = None => live # CtxIds
    /\ HistoryRoom
    /\ Commit(t, InvokeAsyncBody(
            [StateOf(t) EXCEPT
                !.tk.op = "invoke_async",
                !.tk.argInput = input, !.tk.argContext = c,
                !.tk.argHasSettings = withSettings,
                !.tk.argSettings = IF withSettings THEN userSettings ELSE EmptyMap]))

\* await f.invoke_with_custom_input_async(input, memory, skills)
InvokeWithCustomInputAsync(t, variables, memory, skills) ==
    /\ task[t].pc = "idle"
    /\ live # CtxIds
    /\ HistoryRoom
    /\ LET c == FreeId(live) IN
       Commit(t, InvokeAsyncBody(
            [StateOf(t) EXCEPT
                !.live = @ \cup {c},
                !.ctx[c] = SKContext(variables, memory, skills),
                !.tk.op = "invoke_with_custom_input_async",
                !.tk.tmp = c,
                !.tk.argInput = None, !.tk.argContext = c]))

\* The rendering of the prompt ends: with a rendering, or with an exception.
RenderDone(t, ok, rendered) ==
    /\ task[t].pc = "render"
    /\ Commit(t, AfterRender(StateOf(t), ok, rendered))

\* The backend call ends: with a completion, or with an exception.
BackendDone(t, ok, completion) ==
    /\ task[t].pc = "backend"
    /\ Commit(t, AfterBackend(StateOf(t), ok, completion))

\* The asynchronous native body ends.
NativeDone(t) ==
    /\ task[t].pc = "native"
    /\ Commit(t, HandlerFinish(StateOf(t)))

\* The caller has the result of the call.
Collect(t) ==
    /\ task[t].pc = "done"
    /\ task' = [task EXCEPT ![t] = IdleTask]
    /\ UNCHANGED <<fn, ctx, live, history, userSettings, backend, openai, kernel>>

\* f = SKFunction.from_native_method(method, "skill")
FromNativeMethodCall(t, method) ==
    /\ fn = NoFunction
    /\ task[t].pc = "idle"
    /\ LET r  == FromNativeMethod(method, "skill")
           tk == [task[t] EXCEPT !.op = "from_native_method", !.argMethod = method,
                                 !.pc = "done"]
       IN  /\ fn' = r.f
           /\ task' = [task EXCEPT ![t] =
                        IF r.exc # NoExc
                        THEN [tk EXCEPT !.outcome = "raised", !.exc = r.exc]
                        ELSE [tk EXCEPT !.outcome = "returned"]]
    /\ UNCHANGED <<ctx, live, history, userSettings, backend, openai, kernel>>

\* f = SKFunction.from_semantic_config("skill", "function", function_config)
FromSemanticConfigCall(t, has_chat_prompt) ==
    /\ fn = NoFunction
    /\ task[t].pc = "idle"
    /\ fn' = FromSemanticConfig(has_chat_prompt)
    /\ task' = [task EXCEPT ![t] = [@ EXCEPT !.op = "from_semantic_config",
                                             !.pc = "done", !.outcome = "returned"]]
    /\ UNCHANGED <<ctx, live, history, userSettings, backend, openai, kernel>>

\* f.describe()
Describe(t) ==
    /\ task[t].pc = "idle"
    /\ task' = [task EXCEPT ![t] = [@ EXCEPT !.op = "describe", !.pc = "done",
                                             !.outcome = "returned",
                                             !.view = FunctionView(fn)]]
    /\ UNCHANGED <<fn, ctx, live, history, userSettings, backend, openai, kernel>>

\* f.set_default_skill_collection(skills)
SetDefaultSkillCollection(skills) ==
    /\ fn' = [fn EXCEPT !.skill_collection = skills]
    /\ UNCHANGED <<ctx, live, history, userSettings, task, backend, openai, kernel>>

\* The backend a factory makes.
MakeBackend(factory) == "backend"

\* A set_ai_backend that calls the factory and binds its backend before it
\* verifies the kind of the function.
SetAiBackendBindsFirst(f, factory) ==
    LET e1 == VerifyNotNull(factory, "AI LLM backend factory is empty")
        e2 == VerifyIsSemantic(f)
    IN  IF e1 # NoExc THEN [exc |-> e1, f |-> f, factoryCalls |-> 0]
        ELSE [exc |-> e2, f |-> [f EXCEPT !.ai_backend = MakeBackend(factory)],
              factoryCalls |-> 1]

\* set_ai_backend, lines 195-197: the exception it raises (or none), the
\* function after it, and the calls of the factory it made.
SetAiBackendResult(f, factory) ==
    LET e1 == VerifyNotNull(factory, "AI LLM backend factory is empty")
        e2 == VerifyIsSemantic(f)
    IN  IF e1 # NoExc THEN [exc |-> e1, f |-> f, factoryCalls |-> 0]
        ELSE IF e2 # NoExc THEN [exc |-> e2, f |-> f, factoryCalls |-> 0]
        ELSE [exc |-> NoExc, f |-> [f EXCEPT !.ai_backend = MakeBackend(factory)],
              factoryCalls |-> 1]

\* f.set_ai_backend(ai_backend)
SetAiBackend(t, factory) ==
    /\ task[t].pc = "idle"
    /\ LET r  == SetAiBackendResult(fn, factory)
           tk == [task[t] EXCEPT !.op = "set_ai_backend", !.argFactory = factory,
                                 !.pc = "done", !.factoryCalls = r.factoryCalls]
       IN  /\ fn' = r.f
           /\ task' = [task EXCEPT ![t] =
                        IF r.exc # NoExc
                        THEN [tk EXCEPT !.outcome = "raised", !.exc = r.exc]
                        ELSE [tk EXCEPT !.outcome = "returned"]]
    /\ UNCHANGED <<ctx, live, history, userSettings, backend, openai, kernel>>

\* The caller builds a settings mapping.
MakeSettings(d) ==
    /\ userSettings' = d
    /\ UNCHANGED <<fn, ctx, live, history, task, backend, openai, kernel>>

\* The caller builds a context: SKContext(ContextVariables(content), ...)
NewContext(content, skills) ==
    /\ live # CtxIds
    /\ LET c == FreeId(live) IN
       /\ live' = live \cup {c}
       /\ ctx' = [ctx EXCEPT ![c] = SKContext(ContextVariables(content), "NullMemory", skills)]
    /\ UNCHANGED <<fn, history, userSettings, task, backend, openai, kernel>>

\* The caller drops a context no call works on.
DropContext(c) ==
    /\ c \in live
    /\ \A t \in Tasks : c \notin {task[t].context, task[t].tmp, task[t].ret}
    /\ live' = live \ {c}
    /\ ctx' = [ctx EXCEPT ![c] = NoContext]
    /\ UNCHANGED <<fn, history, userSettings, task, backend, openai, kernel>>

(* ---------------------- chat and text backends ----------------------- *)

ValueError(message) == Exc("ValueError", "none", message)

AssertionError(message) == Exc("AssertionError", "none", message)

\* The names, keys and endpoints given to the constructors of the backends.
Names == {None, "", " ", "name"}
Keys == {None, "", "key"}
Endpoints == {None, "", "http://host", "https://host"}

\* s.strip()
Strip(s) == IF s = " " THEN "" ELSE s

\* `not s or not s.strip()`
IsEmpty(s) == s = None \/ s = "" \/ Strip(s) = ""

\* endpoint.startswith("https://")
StartsWithHttps(endpoint) == endpoint = "https://host"

\* No backend object; attrs are the attributes assigned so far.
NoBackendObject ==
    [ class |-> "none", attrs |-> {}, model_id |-> None, api_key |-> None,
      api_type |-> "none", endpoint |-> None, pre_hooks |-> 0 ]

\* The openai module as imported.
OpenAIDefaults == [api_type |-> "open_ai", api_key |-> None, api_base |-> "default"]

\* A construction in progress: the object, the module, the exception raised.
Constructing(class) ==
    [ self |-> [NoBackendObject EXCEPT !.class = class], openai |-> openai,
      exc |-> NoExc ]

\* OpenAIChatBackend._setup_open_ai and OpenAITextBackend._setup_open_ai
\* (no organization is given)
OpenAISetupOpenAI(s) == [s EXCEPT !.openai.api_key = s.self.api_key]

\* AzureOpenAIChatBackend._setup_open_ai: the read of an attribute that has
\* not been assigned raises AttributeError.
AzureSetupOpenAI(s) ==
    LET s1 == [s EXCEPT !.openai.api_type = "azure"]
        s2 == [s1 EXCEPT !.openai.api_key = s.self.api_key]
        s3 == [s2 EXCEPT !.openai.api_base = s.self.endpoint]
    IN  IF "_api_key" \notin s.self.attrs
        THEN [s1 EXCEPT !.exc = AttributeError("_api_key")]
        ELSE IF "_endpoint" \notin s.self.attrs
        THEN [s2 EXCEPT !.exc = AttributeError("_endpoint")]
        ELSE IF "_api_version" \notin s.self.attrs
        THEN [s3 EXCEPT !.exc = AttributeError("_api_version")]
        ELSE s3

\* self._setup_open_ai(): the method of the class of the object.
SetupOpenAI(s) ==
    IF s.self.class = "AzureOpenAIChatBackend" THEN AzureSetupOpenAI(s)
    ELSE OpenAISetupOpenAI(s)

\* OpenAIChatBackend.__init__ (lines 52-70) and OpenAITextBackend.__init__
\* (lines 56-73), which sets no _api_type.
OpenAIBackendInit(s, model_id, api_key) ==
    IF IsEmpty(model_id) THEN [s EXCEPT !.exc = ValueError("model_id cannot be empty")]
    ELSE IF IsEmpty(api_key) THEN [s EXCEPT !.exc = ValueError("api_key cannot be empty")]
    ELSE LET isText == s.self.class = "OpenAITextBackend"
             s1 == [s EXCEPT
                      !.self.model_id = model_id, !.self.api_key = api_key,
                      !.self.api_type = IF isText THEN @ ELSE "standard",
                      !.self.attrs = @ \cup {"_model_id", "_api_key", "_org_id", "_log"}
                                       \cup (IF isText THEN {} ELSE {"_api_type"})]
             s2 == SetupOpenAI(s1)
         IN  IF s2.exc # NoExc THEN s2
             ELSE [s2 EXCEPT !.self.attrs =
                     @ \cup {"_open_ai_instance", "_pre_hooks", "_post_response_hooks"}]

\* AzureOpenAIChatBackend.__init__
AzureOpenAIChatBackendInit(s, deployment_name, endpoint, api_key) ==
    IF IsEmpty(deployment_name)
    THEN [s EXCEPT !.exc = ValueError("Azure deployment_name cannot be empty")]
    ELSE IF IsEmpty(api_key)
    THEN [s EXCEPT !.exc = ValueError("Azure api_key cannot be empty")]
    ELSE IF IsEmpty(endpoint)
    THEN [s EXCEPT !.exc = ValueError("Azure endpoint cannot be empty")]
    ELSE IF ~StartsWithHttps(endpoint)
    THEN [s EXCEPT !.exc = ValueError("Azure endpoint must start with 'https://'")]
    ELSE LET s1 == OpenAIBackendInit(s, deployment_name, api_key) IN
         IF s1.exc # NoExc THEN s1
         ELSE [s1 EXCEPT !.self.endpoint = endpoint, !.self.api_type = "azure",
                         !.self.attrs = @ \cup {"_endpoint", "_api_version"}]

\* The call of a constructor ends: the caller holds the new object, or the
\* exception; what the constructor assigned in the openai module stays.
Constructed(t, op, s, model_id, endpoint, api_key) ==
    /\ backend' = IF s.exc = NoExc THEN s.self ELSE backend
    /\ openai' = s.openai
    /\ task' = [task EXCEPT ![t] =
                  [@ EXCEPT !.op = op, !.pc = "done",
                            !.argModel = model_id, !.argKey = api_key,
                            !.argEndpoint = endpoint,
                            !.outcome = IF s.exc = NoExc THEN "returned" ELSE "raised",
                            !.exc = s.exc]]
    /\ UNCHANGED <<fn, ctx, live, history, userSettings, kernel>>

\* backend = OpenAIChatBackend(model_id, api_key)
NewOpenAIChatBackend(t, model_id, api_key) ==
    /\ task[t].pc = "idle"
    /\ Constructed(t, "OpenAIChatBackend",
                   OpenAIBackendInit(Constructing("OpenAIChatBackend"), model_id, api_key),
                   model_id, None, api_key)

\* backend = OpenAITextBackend(model_id, api_key)
NewOpenAITextBackend(t, model_id, api_key) ==
    /\ task[t].pc = "idle"
    /\ Constructed(t, "OpenAITextBackend",
                   OpenAIBackendInit(Constructing("OpenAITextBackend"), model_id, api_key),
                   model_id, None, api_key)

\* backend = AzureOpenAIChatBackend(deployment_name, endpoint, api_key)
NewAzureOpenAIChatBackend(t, deployment_name, endpoint, api_key) ==
    /\ task[t].pc = "idle"
    /\ Constructed(t, "AzureOpenAIChatBackend",
                   AzureOpenAIChatBackendInit(Constructing("AzureOpenAIChatBackend"),
                                              deployment_name, endpoint, api_key),
                   deployment_name, endpoint, api_key)

(* ------------------- requests of the chat and text backends ---------- *)

\* OpenAIChatBackend.VALID_PARAMS
ChatValidParams ==
    {"max_tokens", "temperature", "top_p", "frequency_penalty", "presence_penalty",
     "stop", "n", "logit_bias", "user"}

\* OpenAITextBackend.VALID_PARAMS
TextValidParams ==
    {"max_tokens", "temperature", "top_p", "frequency_penalty", "presence_penalty",
     "stop", "logprobs", "n", "suffix", "logit_bias", "user", "best_of", "echo"}

\* The default of max_tokens.
DefaultMaxTokens == 128

\* The keyword arguments callers pass in the model, each with one value;
\* "stream" is in neither list of valid parameters.
ParamValue ==
    [ max_tokens |-> 64, temperature |-> 1, n |-> 2, logprobs |-> 1, echo |-> 1,
      stream |-> 1 ]

Kwargs == {[k \in K |-> ParamValue[k]] : K \in SUBSET DOMAIN ParamValue}

\* {param: value for param, value in kwargs.items() if param not in keys}
Without(d, keys) == [k \in DOMAIN d \ keys |-> d[k]]

\* d[key] = value
With(d, key, value) == [k \in DOMAIN d \cup {key} |-> IF k = key THEN value ELSE d[k]]

\* The chat histories and the prompts callers pass in the model.
ChatHistories ==
    { <<>>, << <<"user", "hi">> >>, << <<"assistant", "hello">> >>,
      << <<"user", "hi">>, <<"assistant", "hello">> >>,
      << <<"assistant", "hello">>, <<"user", "hi">> >> }

TextPrompts == {None, "", "prompt"}

\* [{"role": role, "content": message} for role, message in chat_history]
FormattedMessages(chat_history) ==
    [i \in 1..Len(chat_history) |->
        [role |-> chat_history[i][1], content |-> chat_history[i][2]]]

\* A defaulting that writes the default over the max_tokens of the caller.
DefaultedMaxTokensAlways(kwargs) == With(kwargs, "max_tokens", DefaultMaxTokens)

\* `if "max_tokens" not in kwargs: kwargs["max_tokens"] = 128`
DefaultedMaxTokens(kwargs) ==
    IF "max_tokens" \in DOMAIN kwargs THEN kwargs
    ELSE With(kwargs, "max_tokens", DefaultMaxTokens)

\* model_args: the parameters, and the model id as engine or as model.
ModelArgs(kwargs, azure, model_id) ==
    IF azure THEN With(kwargs, "engine", model_id) ELSE With(kwargs, "model", model_id)

\* A request that has passed validation: the hooks to await and the call
\* of acreate to make.
Request(hooks, input, model_args) ==
    [exc |-> NoExc, hooks |-> hooks, input |-> input, args |-> model_args]

\* A request that validation has rejected.
Rejected(e) == [exc |-> e, hooks |-> 0, input |-> <<>>, args |-> EmptyMap]

\* A _generate_messages_async that sends the request without validating it.
GenerateMessagesRequestUnvalidated(self, chat_history, kwargs) ==
    Request(self.pre_hooks, FormattedMessages(chat_history),
            ModelArgs(DefaultedMaxTokens(kwargs), self.api_type = "azure",
                      self.model_id))

\* OpenAIChatBackend._generate_messages_async, lines 90-129, to the await
\* of acreate.
GenerateMessagesRequest(self, chat_history, kwargs) ==
    IF chat_history = <<>>
    THEN Rejected(ValueError("chat_history cannot be empty"))
    ELSE IF chat_history[Len(chat_history)][1] # "user"
    THEN Rejected(ValueError("The last message in chat_history must be from the user"))
    ELSE IF \E param \in DOMAIN kwargs : param \notin ChatValidParams
    THEN Rejected(ValueError("Invalid parameter"))
    ELSE Request(self.pre_hooks, FormattedMessages(chat_history),
                 ModelArgs(DefaultedMaxTokens(kwargs), self.api_type = "azure",
                           self.model_id))

\* OpenAITextBackend._complete_async, lines 91-127, to the await of acreate;
\* the API type is read from the openai module.
CompleteRequest(self, module, prompt, kwargs) ==
    IF prompt = None
    THEN Rejected(ValueError("The prompt cannot be None"))
    ELSE IF prompt = ""
    THEN Rejected(ValueError("The prompt cannot be empty"))
    ELSE IF \E param \in DOMAIN kwargs : param \notin TextValidParams
    THEN Rejected(ValueError("Invalid parameter"))
    ELSE Request(self.pre_hooks, prompt,
                 ModelArgs(DefaultedMaxTokens(kwargs), module.api_type = "azure",
                           self.model_id))

\* A filter of generate_message_async that drops nothing.
ChatSingleKwargsAll(kwargs) == kwargs

\* generate_message_async, lines 169-174
ChatSingleKwargs(kwargs) == Without(kwargs, {"n"})

\* complete_single_async, lines 166-171
TextSingleKwargs(kwargs) == Without(kwargs, {"n", "logprobs", "echo"})

\* The responses of the API: a `choices` field or none, up to two choices,
\* each with its message content or text, or without it.
ApiChoices == [has_content : BOOLEAN, content : Replies]

ApiResponses ==
    {[has_choices |-> h, choices |-> c] :
        h \in BOOLEAN, c \in UNION {[1..n -> ApiChoices] : n \in 0..2}}

\* The validations (1)-(4) of the response.
ResponseError(response) ==
    IF ~response.has_choices
    THEN AssertionError("The response did not contain a choices field")
    ELSE IF Len(response.choices) = 0
    THEN AssertionError("The response did not contain any choices")
    ELSE IF \E i \in 1..Len(response.choices) : ~response.choices[i].has_content
    THEN AssertionError("One or more of the choices did not contain its field")
    ELSE NoExc

\* response["choices"][0]["message"]["content"], response["choices"][0]["text"]
FirstChoice(response) == response.choices[1].content

\* The call of a backend operation starts: it is rejected, or it awaits
\* its pre-hooks and then acreate.
Requested(t, op, tk, r) ==
    /\ task' = [task EXCEPT ![t] =
                  IF r.exc # NoExc
                  THEN [tk EXCEPT !.op = op, !.pc = "done", !.outcome = "raised",
                                  !.exc = r.exc]
                  ELSE [tk EXCEPT !.op = op, !.pc = "api", !.hooksRun = r.hooks,
                                  !.apiCalls = 1, !.apiArgs = r.args,
                                  !.apiInput = r.input]]
    /\ UNCHANGED <<fn, ctx, live, history, userSettings, backend, openai, kernel>>

ChatClasses == {"OpenAIChatBackend", "AzureOpenAIChatBackend"}

\* await backend.generate_message_async(chat_history, **kwargs)
GenerateMessageAsync(t, chat_history, kwargs) ==
    /\ task[t].pc = "idle"
    /\ backend.class \in ChatClasses
    /\ Requested(t, "generate_message_async",
                 [task[t] EXCEPT !.argHistory = chat_history, !.argKwargs = kwargs],
                 GenerateMessagesRequest(backend, chat_history, ChatSingleKwargs(kwargs)))

\* await backend.complete_single_async(prompt, **kwargs)
CompleteSingleAsync(t, prompt, kwargs) ==
    /\ task[t].pc = "idle"
    /\ backend.class = "OpenAITextBackend"
    /\ Requested(t, "complete_single_async",
                 [task[t] EXCEPT !.argPrompt = prompt, !.argKwargs = kwargs],
                 CompleteRequest(backend, openai, prompt, TextSingleKwargs(kwargs)))

\* await backend.generate_messages_async(chat_history, n, **kwargs)
GenerateMessagesAsync(t, chat_history, n, kwargs) ==
    /\ task[t].pc = "idle"
    /\ backend.class \in ChatClasses
    /\ "n" \notin DOMAIN kwargs
    /\ Requested(t, "generate_messages_async",
                 [task[t] EXCEPT !.argHistory = chat_history,
                                 !.argKwargs = With(kwargs, "n", n)],
                 GenerateMessagesRequest(backend, chat_history, With(kwargs, "n", n)))

\* The await of acreate ends: with a response, which is validated, or with
\* an exception of the API.
ApiDone(t, ok, response) ==
    /\ task[t].pc = "api"
    /\ LET e  == IF ok THEN ResponseError(response)
                 ELSE Exc("APIError", "none", "the request failed")
           tk == [task[t] EXCEPT !.pc = "done"]
       IN  task' = [task EXCEPT ![t] =
                      IF e # NoExc
                      THEN [tk EXCEPT !.outcome = "raised", !.exc = e]
                      ELSE [tk EXCEPT !.outcome = "returned",
                              !.result =
                                 IF tk.op = "generate_messages_async"
                                 THEN [i \in 1..Len(response.choices) |->
                                          response.choices[i].content]
                                 ELSE <<FirstChoice(response)>>,
                              !.apiResponse = response]]
    /\ UNCHANGED <<fn, ctx, live, history, userSettings, backend, openai, kernel>>

\* The caller appends a hook to the list of pre-hooks of the backend.
AppendPreHook ==
    /\ backend.class # "none"
    /\ backend.pre_hooks = 0
    /\ backend' = [backend EXCEPT !.pre_hooks = 1]
    /\ UNCHANGED <<fn, ctx, live, history, userSettings, task, openai, kernel>>

\* The caller makes backends and sends requests, one call after the other.
NextBackend ==
    \/ \E t \in Tasks, model_id \in Names, api_key \in Keys :
            AllIdle /\ NewOpenAIChatBackend(t, model_id, api_key)
    \/ \E t \in Tasks, model_id \in Names, api_key \in Keys :
            AllIdle /\ NewOpenAITextBackend(t, model_id, api_key)
    \/ \E t \in Tasks, name \in Names, endpoint \in Endpoints, api_key \in Keys :
            AllIdle /\ NewAzureOpenAIChatBackend(t, name, endpoint, api_key)
    \/ AllIdle /\ AppendPreHook
    \/ \E t \in Tasks, chat_history \in ChatHistories, kwargs \in Kwargs :
            GenerateMessageAsync(t, chat_history, kwargs)
    \/ \E t \in Tasks, chat_history \in ChatHistories, kwargs \in Kwargs :
            GenerateMessagesAsync(t, chat_history, ParamValue["n"], kwargs)
    \/ \E t \in Tasks, prompt \in TextPrompts, kwargs \in Kwargs :
            CompleteSingleAsync(t, prompt, kwargs)
    \/ \E t \in Tasks, ok \in BOOLEAN, response \in ApiResponses :
            ApiDone(t, ok, response)
    \/ \E t \in Tasks : Collect(t)

(* ------------------------ kernel memory configuration ----------------- *)

Storages == {None, "store1", "store2"}

Generators == {None, "generator1", "generator2"}

\* SemanticTextMemory(storage, embeddings_generator)
SemanticTextMemory(storage, embeddings_generator) ==
    [ class |-> "SemanticTextMemory", storage |-> storage,
      embeddings_generator |-> embeddings_generator ]

\* NullMemory(), the memory create_kernel gives the builder.
NullMemory ==
    [ class |-> "NullMemory", storage |-> None, embeddings_generator |-> None ]

\* KernelBuilder(KernelConfig(), NullMemory(), NullLogger()), before build():
\* the builder, the configuration it shares with the kernel, and the kernel
\* the caller got from the last build().
NoKernel ==
    [ memory_storage |-> None,            \* KernelBuilder._memory_storage
      has_embedding_backend |-> FALSE,    \* the configuration has a "default" one
      embedding_backend |-> None,         \* what its factory returns
      built |-> FALSE,                    \* build() returned a kernel
      memory |-> NullMemory ]             \* the memory of the kernel

\* kernel.config.get_ai_backend(EmbeddingAIBackend, id)(kernel): the factory
\* with_embedding_backend registered is lambda _: backend.
EmbeddingFactory(k) == k.embedding_backend

\* kernel.register_memory(memory)
RegisterMemory(k, memory) == [k EXCEPT !.memory = memory]

\* A use_memory that registers whatever it was given.
UseMemoryUnchecked(k, storage, embeddings_generator) ==
    LET generator == IF embeddings_generator = None THEN EmbeddingFactory(k)
                     ELSE embeddings_generator
    IN  [ exc |-> NoExc, registered |-> 1,
          k |-> RegisterMemory(k, SemanticTextMemory(storage, generator)) ]

\* use_memory(kernel, storage, embeddings_generator), lines 11-27.
UseMemory(k, storage, embeddings_generator) ==
    LET generator == IF embeddings_generator = None THEN EmbeddingFactory(k)
                     ELSE embeddings_generator
    IN  IF storage = None
        THEN [ exc |-> ValueError("The storage instance provided is None"),
               registered |-> 0, k |-> k ]
        ELSE IF generator = None
        THEN [ exc |-> ValueError("An embedding generator was not found/could not be created"),
               registered |-> 0, k |-> k ]
        ELSE [ exc |-> NoExc, registered |-> 1,
               k |-> RegisterMemory(k, SemanticTextMemory(storage, generator)) ]

\* The call of the memory configuration ended: with r.exc, or it returned.
Configured(t, op, storage, embeddings_generator, r) ==
    /\ kernel' = r.k
    /\ task' = [task EXCEPT ![t] =
                  [@ EXCEPT !.op = op, !.pc = "done",
                            !.argStorage = storage,
                            !.argGenerator = embeddings_generator,
                            !.registerCalls = r.registered,
                            !.outcome = IF r.exc = NoExc THEN "returned" ELSE "raised",
                            !.exc = r.exc]]
    /\ UNCHANGED <<fn, ctx, live, history, userSettings, backend, openai>>

\* builder.with_memory_storage(storage), lines 43-46
WithMemoryStorage(t, storage) ==
    /\ task[t].pc = "idle"
    /\ LET e == VerifyNotNull(storage, "The memory storage instance provided is None")
       IN  Configured(t, "with_memory_storage", storage, None,
                      [ exc |-> e, registered |-> 0,
                        k |-> IF e = NoExc
                              THEN [kernel EXCEPT !.memory_storage = storage]
                              ELSE kernel ])

\* builder.with_embedding_backend(backend), lines 63-65
WithEmbeddingBackend(t, embedding_backend) ==
    /\ task[t].pc = "idle"
    /\ Configured(t, "with_embedding_backend", None, embedding_backend,
                  [ exc |-> NoExc, registered |-> 0,
                    k |-> [kernel EXCEPT !.has_embedding_backend = TRUE,
                                         !.embedding_backend = embedding_backend] ])

\* kernel = builder.build(), lines 67-79: a new kernel with the builder's
\* memory; use_memory is called when the builder has a memory storage, and
\* what it raises leaves build(), so the caller keeps the kernel it had.
Build(t) ==
    /\ task[t].pc = "idle"
    /\ kernel.memory_storage # None => kernel.has_embedding_backend
    /\ LET instance == [kernel EXCEPT !.built = TRUE, !.memory = NullMemory]
           r == IF kernel.memory_storage # None
                THEN UseMemory(instance, kernel.memory_storage, None)
                ELSE [exc |-> NoExc, registered |-> 0, k |-> instance]
       IN  Configured(t, "build", kernel.memory_storage, None,
                      IF r.exc = NoExc THEN r ELSE [r EXCEPT !.k = kernel])

\* use_memory(kernel, storage, embeddings_generator) on the kernel built.
UseMemoryCall(t, storage, embeddings_generator) ==
    /\ task[t].pc = "idle"
    /\ kernel.built
    /\ embeddings_generator = None => kernel.has_embedding_backend
    /\ Configured(t, "use_memory", storage, embeddings_generator,
                  UseMemory(kernel, storage, embeddings_generator))

\* The caller configures a builder, builds kernels and gives them a memory.
NextMemory ==
    \/ \E t \in Tasks, storage \in Storages : WithMemoryStorage(t, storage)
    \/ \E t \in Tasks, g \in Generators : WithEmbeddingBackend(t, g)
    \/ \E t \in Tasks : Build(t)
    \/ \E t \in Tasks, storage \in Storages, g \in Generators :
            UseMemoryCall(t, storage, g)
    \/ \E t \in Tasks : Collect(t)

(* ----------------------------- specification -------------------------- *)

Factories == {None, "factory"}

\* A function has been built.
Built == fn # NoFunction

Init ==
    /\ fn = NoFunction
    /\ ctx = [c \in AllCtxIds |-> NoContext]
    /\ live = {}
    /\ history = <<>>
    /\ userSettings = EmptyMap
    /\ task = [t \in AllTasks |-> IdleTask]
    /\ backend = NoBackendObject
    /\ openai = OpenAIDefaults
    /\ kernel = NoKernel

\* The caller builds one function and then works with it; it awaits each
\* call before it does anything else.
Ready == Built /\ AllIdle

Next ==
    \/ \E t \in Tasks, method \in Methods : FromNativeMethodCall(t, method)
    \/ \E t \in Tasks, chat \in BOOLEAN : FromSemanticConfigCall(t, chat)
    \/ \E t \in Tasks : Ready /\ Describe(t)
    \/ \E t \in Tasks, input \in Inputs \cup {None}, c \in CtxIds \cup {None},
          withSettings \in BOOLEAN :
            Ready /\ InvokeAsync(t, input, c, withSettings)
    \/ \E t \in Tasks, x \in Inputs, skills \in Regs \cup {None} :
            Ready /\ InvokeWithCustomInputAsync(t, ContextVariables(x), "memory", skills)
    \/ \E t \in Tasks, ok \in BOOLEAN, rendered \in Prompts : RenderDone(t, ok, rendered)
    \/ \E t \in Tasks, ok \in BOOLEAN, completion \in Replies : BackendDone(t, ok, completion)
    \/ \E t \in Tasks : NativeDone(t)
    \/ \E t \in Tasks : Collect(t)
    \/ \E skills \in Regs \cup {None} : Ready /\ SetDefaultSkillCollection(skills)
    \/ \E t \in Tasks, factory \in Factories : Ready /\ SetAiBackend(t, factory)
    \/ \E d \in CallerSettings : Ready /\ MakeSettings(d)
    \/ \E content \in Inputs, skills \in Regs \cup {None} :
            Ready /\ NewContext(content, skills)
    \/ \E c \in CtxIds : Ready /\ DropContext(c)

Spec == Init /\ [][Next]_vars

(* -------------------------- embedding backend ------------------------- *)

\* The vector the embedding service holds for a text.
EmbeddingOf(text) ==
    IF text = "a" THEN <<1, 0>> ELSE IF text = "b" THEN <<0, 1>> ELSE <<1, 1>>

\* numpy.array(x)
Array(x) == [ndarray |-> x]

\* The arguments of generate_embeddings_async: up to MaxTexts texts.
TextLists == UNION {[1..n -> EmbeddedTexts] : n \in 0..MaxTexts}

\* The shapes of the responses of the service: for each entry of `data`,
\* whether it has an `embedding` field; there may be less or more entries
\* than texts.
ResponseShapes == UNION {[1..n -> BOOLEAN] : n \in 0..(MaxTexts + 1)}

\* The response of the service to `texts`: entry i is the entry for the
\* i-th text; an entry beyond the texts holds some other vector.
Response(texts, has_data, shape) ==
    [ has_data |-> has_data,
      data |-> [i \in 1..Len(shape) |->
                  [ has_embedding |-> shape[i],
                    embedding |-> IF i <= Len(texts) THEN EmbeddingOf(texts[i])
                                  ELSE EmbeddingOf("other") ]] ]

\* A generate_embeddings_async without validation (2): it returns the
\* embeddings of the entries the response has.
GenerateEmbeddingsUncounted(texts, response) ==
    IF ~response.has_data
    THEN [exc |-> AssertionError("Response does not contain the data field"),
          value |-> Array(<<>>)]
    ELSE IF \E i \in 1..Len(response.data) : ~response.data[i].has_embedding
    THEN [exc |-> AssertionError("One or more items are missing the embedding field"),
          value |-> Array(<<>>)]
    ELSE [exc |-> NoExc,
          value |-> Array([i \in 1..Len(response.data) |->
                              Array(response.data[i].embedding)])]

\* generate_embeddings_async, lines 89-108: the validations (1), (2), (3) of
\* the response and the extraction of the embeddings.
GenerateEmbeddings(texts, response) ==
    IF ~response.has_data
    THEN [exc |-> AssertionError("Response does not contain the data field"),
          value |-> Array(<<>>)]
    ELSE IF Len(response.data) # Len(texts)
    THEN [exc |-> AssertionError("Response does not contain an embedding for each text"),
          value |-> Array(<<>>)]
    ELSE IF \E i \in 1..Len(response.data) : ~response.data[i].has_embedding
    THEN [exc |-> AssertionError("One or more items are missing the embedding field"),
          value |-> Array(<<>>)]
    ELSE [exc |-> NoExc,
          value |-> Array([i \in 1..Len(response.data) |->
                              Array(response.data[i].embedding)])]

\* await backend.generate_embeddings_async(texts): the function has no
\* await of its own, the call of the service and the validation are one step.
GenerateEmbeddingsAsync(t, texts, has_data, shape) ==
    /\ task[t].pc = "idle"
    /\ LET response == Response(texts, has_data, shape)
           r  == GenerateEmbeddings(texts, response)
           tk == [task[t] EXCEPT !.op = "generate_embeddings_async", !.pc = "done",
                                 !.argTexts = texts, !.response = response]
       IN  task' = [task EXCEPT ![t] =
                      IF r.exc # NoExc
                      THEN [tk EXCEPT !.outcome = "raised", !.exc = r.exc]
                      ELSE [tk EXCEPT !.outcome = "returned", !.embeddings = r.value]]
    /\ UNCHANGED <<fn, ctx, live, history, userSettings, backend, openai, kernel>>

\* The caller generates embeddings, one call after the other.
NextEmbedding ==
    \/ \E t \in Tasks, texts \in TextLists, has_data \in BOOLEAN,
          shape \in ResponseShapes :
            GenerateEmbeddingsAsync(t, texts, has_data, shape)
    \/ \E t \in Tasks : Collect(t)

SpecEmbedding == Init /\ [][NextEmbedding]_vars

SpecBackend == Init /\ [][NextBackend]_vars

SpecMemory == Init /\ [][NextMemory]_vars

(* ----------------------- interleaved invocations ---------------------- *)

\* The context each of the two interleaved invocations is given.
OwnContext(t) == IF t = "t1" THEN "c1" ELSE "c2"

\* The context of each invocation before the invocations.
InitialContext == SKContext(ContextVariables(""), "NullMemory", None)

\* A function with a registry and, if semantic, a backend; two contexts.
InitInterleaved ==
    /\ fn \in {[f EXCEPT !.skill_collection = "R1",
                         !.ai_backend = IF f.is_semantic
                                        THEN MakeBackend("factory") ELSE None] :
                 f \in {FromNativeMethod(m, "skill").f : m \in Methods}
                       \cup {FromSemanticConfig(chat) : chat \in BOOLEAN}}
               \ {[NoFunction EXCEPT !.skill_collection = "R1"]}
    /\ ctx = [c \in AllCtxIds |-> InitialContext]
    /\ live = AllCtxIds
    /\ history = <<>>
    /\ userSettings \in {EmptyMap, [temperature |-> 1]}
    /\ task = [t \in AllTasks |-> IdleTask]
    /\ backend = NoBackendObject
    /\ openai = OpenAIDefaults
    /\ kernel = NoKernel

\* The caller starts two invocations, each once and on its own context, and
\* the event loop resumes either at each of its awaits.
NextInterleaved ==
    \/ \E t \in AllTasks, input \in Inputs \cup {None}, withSettings \in BOOLEAN :
            InvokeAsync(t, input, OwnContext(t), withSettings)
    \/ \E t \in AllTasks, ok \in BOOLEAN, rendered \in Prompts : RenderDone(t, ok, rendered)
    \/ \E t \in AllTasks, ok \in BOOLEAN, completion \in Replies :
            BackendDone(t, ok, completion)
    \/ \E t \in AllTasks : NativeDone(t)

SpecInterleaved == InitInterleaved /\ [][NextInterleaved]_vars

(* ------------------------------- properties --------------------------- *)

Invocations == {"invoke_async", "invoke_with_custom_input_async"}

\* The call of task t has ended and the caller has not yet taken its result.
Done(t) == task[t].pc = "done"

\* C1: the settings the backend receives are the template's completion
\* settings overlaid with the settings the caller passed: the caller's value
\* for every key the caller passed, the template's value for the other keys.
C1_CallerSettingsOverlayTemplate ==
    \A t \in Tasks :
        task[t].calls > 0 =>
            task[t].sent = DictUpdate(ConfigSettings, task[t].argSettings)

\* C2: invoke_with_custom_input_async never raises; when an exception left
\* the inner invoke_async, it returns the context it built, marked failed,
\* with the exception's message as the error description.
C2_CustomInputNeverRaises ==
    \A t \in Tasks :
        task[t].op = "invoke_with_custom_input_async" =>
            /\ task[t].outcome # "raised"
            /\ (Done(t) /\ task[t].escaped # NoExc) =>
                  /\ task[t].outcome = "returned"
                  /\ task[t].ret = task[t].tmp
                  /\ task[t].ret \in live
                  /\ ctx[task[t].ret].memory = "memory"
                  /\ ctx[task[t].ret].error_occurred
                  /\ ctx[task[t].ret].last_error_description = task[t].escaped.msg

\* C2 witness: a native function whose body always throws, called through
\* invoke_with_custom_input_async, has returned the failed context.
C2_Witness ==
    \E t \in Tasks :
        /\ Done(t) /\ task[t].op = "invoke_with_custom_input_async"
        /\ fn.function = "Throw" /\ task[t].bodyCalls = 1
        /\ task[t].escaped.msg = "boom"
        /\ ctx[task[t].ret].last_error_description = "boom"

\* C3: with a bound backend, an exception raised by the rendering or by the
\* backend call is recorded on the context with context.fail(str(e), e) and
\* invoke_async returns that context instead of raising.
C3_SemanticFailureIsCaptured ==
    \A t \in Tasks :
        (Done(t) /\ task[t].op = "invoke_async" /\ task[t].thrown # NoExc) =>
            /\ task[t].outcome = "returned"
            /\ task[t].ret = task[t].context
            /\ ctx[task[t].ret].error_occurred
            /\ ctx[task[t].ret].last_error_description = Str(task[t].thrown)
            /\ ctx[task[t].ret].last_exception = task[t].thrown

\* C3 witness: a backend call that raised, after a rendering that did not.
C3_Witness ==
    \E t \in Tasks :
        /\ Done(t) /\ task[t].op = "invoke_async"
        /\ task[t].thrown = BackendError /\ task[t].calls = 1
        /\ ctx[task[t].ret].last_error_description = "backend failed"

\* C4: invoking a semantic function that has no bound backend fails, and no
\* backend operation is called by that invocation.
C4_NoBackendNoCall ==
    \A t \in Tasks :
        (fn.is_semantic /\ fn.ai_backend = None /\ task[t].op \in Invocations) =>
            /\ task[t].pc \in {"idle", "done"}
            /\ task[t].calls = 0
            /\ (Done(t) /\ task[t].op = "invoke_async") => task[t].outcome = "raised"
            /\ (Done(t) /\ task[t].op = "invoke_with_custom_input_async") =>
                    ctx[task[t].ret].error_occurred

\* C4 witness: invoke_async on a context, with a registry and no backend, has
\* raised "AI LLM backend is empty".
C4_Witness ==
    \E t \in Tasks :
        /\ Done(t) /\ task[t].op = "invoke_async"
        /\ fn.is_semantic /\ fn.ai_backend = None
        /\ task[t].argContext # None
        /\ task[t].exc = Exc("ValueError", "none", "AI LLM backend is empty")

\* C5: invoke_async with no context, on a function whose default registry
\* is not set, fails before any side effect: no context is created, nothing
\* is written, and neither a backend nor a native body is called.
C5_NoRegistryNoSideEffect ==
    [][\A t \in Tasks :
          ( /\ task[t].pc = "idle"
            /\ task'[t].op = "invoke_async"
            /\ task'[t].argContext = None
            /\ fn.skill_collection = None ) =>
          ( /\ task'[t].pc = "done"
            /\ task'[t].outcome = "raised"
            /\ task'[t].context = None
            /\ task'[t].calls = 0
            /\ task'[t].bodyCalls = 0
            /\ UNCHANGED <<fn, ctx, live, history, userSettings>> )]_vars

\* C5 witness: such a call, with an input and with settings, has raised.
C5_Witness ==
    \E t \in Tasks :
        /\ Done(t) /\ task[t].op = "invoke_async"
        /\ task[t].argContext = None /\ fn.skill_collection = None
        /\ task[t].argInput = "abc" /\ task[t].argHasSettings
        /\ task[t].outcome = "raised"
        /\ task[t].exc.msg = "Skill collection is empty"

\* The step ends a call of task t.
Ends(t) == task[t].pc # "done" /\ task'[t].pc = "done"

\* C6: an exception raised by the body of a native function under its
\* handler reaches the caller of invoke_async, and invoke_async does not
\* record it in the failure slot of the context.
C6_NativeExceptionPropagates ==
    [][\A t \in Tasks :
          ( /\ Ends(t)
            /\ task'[t].op = "invoke_async"
            /\ task'[t].bodyCalls > 0
            /\ ~NativeBody(fn.function, task'[t].nativeArg).ok ) =>
          ( /\ task'[t].outcome = "raised"
            /\ task'[t].exc = NativeBody(fn.function, task'[t].nativeArg).exc
            /\ \A c \in CtxIds :
                  /\ ctx'[c].error_occurred = ctx[c].error_occurred
                  /\ ctx'[c].last_error_description = ctx[c].last_error_description
                  /\ ctx'[c].last_exception = ctx[c].last_exception )]_vars

\* C6 witness: invoke_async on a native function whose body throws has
\* raised "boom", and the context it ran on is not marked failed.
C6_Witness ==
    \E t \in Tasks :
        /\ Done(t) /\ task[t].op = "invoke_async"
        /\ fn.function = "Throw" /\ task[t].bodyCalls = 1
        /\ task[t].outcome = "raised" /\ task[t].exc.msg = "boom"
        /\ task[t].context \in live
        /\ ~ctx[task[t].context].error_occurred

\* The rendering and the backend call of the invocation both succeeded.
Succeeded(tk) == tk.calls > 0 /\ tk.thrown = NoExc

\* hist with one user message and then one assistant message appended.
IsExchangeAfter(hist2, hist) ==
    /\ Len(hist2) = Len(hist) + 2
    /\ SubSeq(hist2, 1, Len(hist)) = hist
    /\ hist2[Len(hist) + 1][1] = "user"
    /\ hist2[Len(hist) + 2][1] = "assistant"

\* C7 as claimed: every chat-style invocation (of those that reach the
\* prompt template: a context and a backend are there) appends one user
\* message and then one assistant message to the chat history.
C7_EveryChatInvocationAppends ==
    [][\A t \in Tasks :
          ( /\ Ends(t) /\ task[t].pc \in {"render", "backend"}
            /\ task'[t].op \in Invocations /\ fn.has_chat_prompt ) =>
              IsExchangeAfter(history', history)]_vars

\* C7 as amended: a chat-style invocation whose rendering and backend call
\* succeed appends the rendered last user message and then the backend's
\* reply as the assistant message; an invocation that fails appends nothing,
\* and nothing else changes the history.
C7_SuccessfulChatInvocationAppends ==
    [][/\ \A t \in Tasks :
            (Ends(t) /\ task'[t].op \in Invocations /\ fn.has_chat_prompt) =>
                IF Succeeded(task'[t])
                THEN /\ IsExchangeAfter(history', history)
                     /\ history'[Len(history) + 1][2] =
                            task'[t].messages[Len(task'[t].messages)][2]
                     /\ task'[t].messages[Len(task'[t].messages)][1] = "user"
                     /\ history'[Len(history) + 2][2] = task'[t].completion
                ELSE history' = history
       /\ (\A t \in Tasks : ~Ends(t)) => history' = history]_vars

\* C7 witness: two successful chat invocations have left two exchanges.
C7_Witness ==
    \E t \in Tasks :
        /\ Done(t) /\ fn.has_chat_prompt /\ Succeeded(task[t])
        /\ Len(history) = 4
        /\ history[3] = <<"user", "p2">>
        /\ history[4] = <<"assistant", task[t].completion>>

\* C8: after a semantic invocation whose backend call succeeds, the default
\* variable of the returned context equals the backend's reply, for plain
\* and for chat templates.
C8_ReplyInDefaultVariable ==
    \A t \in Tasks :
        (Done(t) /\ task[t].op \in Invocations /\ Succeeded(task[t])) =>
            /\ task[t].outcome = "returned"
            /\ task[t].ret = task[t].context
            /\ ctx[task[t].ret].variables["input"] = task[t].completion
            /\ task[t].completion \in Replies

\* C8 witness: a plain-text invocation with input "abc" returned "REPLY".
C8_Witness ==
    \E t \in Tasks :
        /\ Done(t) /\ task[t].op = "invoke_async" /\ Succeeded(task[t])
        /\ ~fn.has_chat_prompt /\ task[t].argInput = "abc"
        /\ ctx[task[t].ret].variables["input"] = "REPLY"

\* C9: for a native function of one string input and a string result that
\* returns its input unchanged, invoke_async with input x returns a context
\* whose default variable is x.
C9_EchoReturnsInput ==
    \A t \in Tasks :
        ( /\ Done(t) /\ task[t].op = "invoke_async"
          /\ ~fn.is_semantic /\ fn.function = "Echo"
          /\ task[t].argInput # None
          /\ (task[t].argContext # None \/ fn.skill_collection # None) ) =>
            /\ task[t].outcome = "returned"
            /\ task[t].ret \in live
            /\ ctx[task[t].ret].variables["input"] = task[t].argInput

\* C9 witness: Echo invoked with the empty string on a context of the caller.
C9_Witness ==
    \E t \in Tasks :
        /\ Done(t) /\ task[t].op = "invoke_async"
        /\ fn.function = "Echo" /\ fn.delegate_type = "InStringOutString"
        /\ task[t].argInput = "" /\ task[t].argContext # None
        /\ task[t].bodyCalls = 1
        /\ ctx[task[t].ret].variables["input"] = ""

\* set_ai_backend, with a factory, was called on a native function.
WrongKind(t) ==
    /\ Done(t) /\ task[t].op = "set_ai_backend"
    /\ ~fn.is_semantic /\ task[t].argFactory # None

\* invoke_async reached a semantic function that has no backend.
Unconfigured(t) ==
    /\ Done(t) /\ task[t].op = "invoke_async"
    /\ fn.is_semantic /\ fn.ai_backend = None
    /\ (task[t].argContext # None \/ fn.skill_collection # None)

\* The exception is a KernelException carrying an error code.
Coded(e) == e.type = "KernelException" /\ e.code # "none"

\* C10 as claimed: a wrong-kind operation and the invocation of a semantic
\* function without a backend both raise a KernelException with an error code.
C10_UsageErrorsAreCoded ==
    \A t \in Tasks :
        (WrongKind(t) \/ Unconfigured(t)) =>
            task[t].outcome = "raised" /\ Coded(task[t].exc)

\* C10 as amended: a wrong-kind operation raises a KernelException with the
\* code InvalidFunctionType; the invocation of a semantic function without a
\* backend raises a ValueError, which carries no error code.
C10_WrongKindCodedUnconfiguredValueError ==
    \A t \in Tasks :
        /\ WrongKind(t) =>
              /\ task[t].outcome = "raised"
              /\ Coded(task[t].exc)
              /\ task[t].exc.code = "InvalidFunctionType"
        /\ Unconfigured(t) =>
              /\ task[t].outcome = "raised"
              /\ task[t].exc = Exc("ValueError", "none", "AI LLM backend is empty")

\* C10 witness: set_ai_backend on a native function has raised.
C10_Witness ==
    \E t \in Tasks : WrongKind(t) /\ task[t].exc.code = "InvalidFunctionType"

\* C11: set_ai_backend on a native function fails with InvalidFunctionType
\* before any effect: the factory is not called and the backend binding
\* stays unset; a null factory is rejected, on any function, without a call
\* of a factory and without a change of the binding.
C11_SetAiBackendRejectsBeforeEffect ==
    [][\A t \in Tasks :
          (task[t].pc = "idle" /\ task'[t].op = "set_ai_backend") =>
            /\ (~fn.is_semantic /\ task'[t].argFactory # None) =>
                  /\ task'[t].outcome = "raised"
                  /\ task'[t].exc.type = "KernelException"
                  /\ task'[t].exc.code = "InvalidFunctionType"
                  /\ task'[t].factoryCalls = 0
                  /\ fn' = fn /\ fn'.ai_backend = None
            /\ task'[t].argFactory = None =>
                  /\ task'[t].outcome = "raised"
                  /\ task'[t].factoryCalls = 0
                  /\ fn' = fn]_vars

\* C11 witness: set_ai_backend with a factory has raised on a native
\* function, which has no backend.
C11_Witness ==
    \E t \in Tasks :
        /\ WrongKind(t) /\ task[t].outcome = "raised"
        /\ task[t].factoryCalls = 0 /\ fn.ai_backend = None

\* C12: an invocation attaches the function's default registry to the
\* context only when the context has none; a context that carries a registry
\* keeps that registry over every step, whatever the function's default
\* registry is at the time.
C12_ContextKeepsItsRegistry ==
    [][\A c \in live \cap live' :
          /\ ctx[c].skills # None => ctx'[c].skills = ctx[c].skills
          /\ ctx'[c].skills # ctx[c].skills =>
                /\ ctx[c].skills = None
                /\ ctx'[c].skills = fn.skill_collection
                /\ \E t \in Tasks : /\ task[t].pc = "idle"
                                    /\ task'[t].op \in Invocations
                                    /\ task'[t].context = c]_vars

\* C12 witness: an invocation has ended on a caller's context whose registry
\* is another one than the function's default registry.
C12_Witness ==
    \E t \in Tasks :
        /\ Done(t) /\ task[t].op = "invoke_async" /\ task[t].outcome = "returned"
        /\ task[t].argContext \in live
        /\ fn.skill_collection # None
        /\ ctx[task[t].argContext].skills \notin {None, fn.skill_collection}

\* The fields of an SKFunction that are assigned in __init__ only.
Immutable(f) ==
    <<f.name, f.skill_name, f.description, f.parameters, f.is_semantic,
      f.delegate_type, f.function>>

\* C13: once the function is built, no step changes its name, skill name,
\* description, parameter list, is_semantic flag, delegate type or callable;
\* a step of invoke_async, of invoke_with_custom_input_async or of describe
\* changes nothing of the function, so that only set_default_skill_collection
\* and set_ai_backend change it, and only its two bindings.
C13_OnlyBindingsChange ==
    [][Built =>
          /\ Immutable(fn') = Immutable(fn)
          /\ fn'.has_chat_prompt = fn.has_chat_prompt
          /\ (\E t \in Tasks : /\ task'[t] # task[t]
                               /\ task'[t].op \in Invocations \cup {"describe"})
                => fn' = fn
          /\ fn' # fn =>
                \/ task' = task /\ fn'.ai_backend = fn.ai_backend
                \/ /\ \E t \in Tasks : task'[t].op = "set_ai_backend"
                   /\ fn'.skill_collection = fn.skill_collection]_vars

\* C13 witness: an invocation has returned on a function whose registry and
\* backend have both been bound after construction.
C13_Witness ==
    \E t \in Tasks :
        /\ Done(t) /\ task[t].op \in Invocations /\ task[t].outcome = "returned"
        /\ fn.skill_collection # None /\ fn.ai_backend # None
        /\ Immutable(fn) = Immutable(FromSemanticConfig(fn.has_chat_prompt))

\* C14: from_native_method fails, and leaves no function, for a method whose
\* signature is not supported or that lacks a required tag; the function of
\* a native SKFunction has a supported calling convention, and no invocation
\* ends with, or records, the unsupported-signature error.
C14_InferenceAtRegistration ==
    /\ \A t \in Tasks :
          task[t].op = "from_native_method" =>
            LET m == task[t].argMethod IN
            /\ (m.signature = "int -> int" \/ m.tags # RequiredTags) =>
                  /\ task[t].outcome = "raised"
                  /\ fn = NoFunction
            /\ (m.signature = "int -> int" /\ m.tags = RequiredTags) =>
                  task[t].exc = UnsupportedSignature
            /\ (m.signature # "int -> int" /\ m.tags = RequiredTags) =>
                  /\ task[t].outcome = "returned"
                  /\ Built /\ ~fn.is_semantic /\ fn.function = m.body
    /\ (Built /\ ~fn.is_semantic) => fn.delegate_type \in NativeDelegateTypes
    /\ \A t \in Tasks :
          task[t].op \in Invocations =>
            /\ task[t].exc # UnsupportedSignature
            /\ task[t].escaped # UnsupportedSignature
            /\ \A c \in live : ctx[c].last_exception # UnsupportedSignature

\* C14 witness: from_native_method has raised the unsupported-signature
\* error for a method that carries every required tag.
C14_Witness ==
    \E t \in Tasks :
        /\ Done(t) /\ task[t].op = "from_native_method"
        /\ task[t].argMethod.tags = RequiredTags
        /\ task[t].exc = UnsupportedSignature
        /\ fn = NoFunction

\* C15: no step clears the failure slot of a context: a context that is
\* failed stays failed, with the recorded description and exception or with
\* those of a later failure, and its default variable stays readable; an
\* invocation that succeeds on a context that was failed when it was called
\* still writes its result to the default variable.
C15_FailureSlotNeverCleared ==
    [][/\ \A c \in live \cap live' :
             ctx[c].error_occurred =>
                /\ ctx'[c].error_occurred
                /\ ctx'[c].last_exception # NoExc
                /\ "input" \in DOMAIN ctx'[c].variables
       /\ \A t \in Tasks :
             ( /\ task'[t].pc = "done" /\ task[t].pc # "done"
               /\ task'[t].op \in Invocations /\ task'[t].wasFailed ) =>
                /\ Succeeded(task'[t]) =>
                      ctx'[task'[t].ret].variables["input"] = task'[t].completion
                /\ (task'[t].bodyCalls = 1 /\ fn.function = "Echo") =>
                      ctx'[task'[t].ret].variables["input"] = task'[t].nativeArg
                /\ task'[t].outcome = "returned" =>
                      ctx'[task'[t].ret].error_occurred]_vars

\* C15 witness: a semantic invocation has succeeded on a context that was
\* failed when it was called; the context holds the reply and is still
\* failed.
C15_Witness ==
    \E t \in Tasks :
        /\ Done(t) /\ task[t].op = "invoke_async" /\ task[t].wasFailed
        /\ Succeeded(task[t])
        /\ ctx[task[t].ret].error_occurred
        /\ ctx[task[t].ret].variables["input"] = task[t].completion

\* The call invoke_async(input, c, settings) that task t makes in this step,
\* made instead on c with an empty failure slot.
OnCleanContext(t) ==
    LET c == task'[t].argContext IN
    InvokeAsyncBody(
        [StateOf(t) EXCEPT
            !.ctx[c] = SKContext(@.variables, @.memory, @.skills),
            !.tk.op = "invoke_async",
            !.tk.argInput = task'[t].argInput, !.tk.argContext = c,
            !.tk.argHasSettings = task'[t].argHasSettings,
            !.tk.argSettings = task'[t].argSettings])

\* C16: invoke_async on a context that is already failed runs as on a
\* context that is not: the input is written to the default variable, a
\* native function's body is called, a semantic function with a backend
\* goes on to its rendering and then to the backend call; the call ends, or
\* suspends, in the state it would reach from the same context with an empty
\* failure slot.
C16_FailedContextRunsTheSame ==
    [][\A t \in Tasks :
          /\ ( /\ task[t].pc = "idle" /\ task'[t].op = "invoke_async"
               /\ task'[t].argContext # None /\ task'[t].wasFailed ) =>
                LET c == task'[t].argContext
                    r == OnCleanContext(t)
                IN  /\ task'[t].argInput # None =>
                          ctx'[c].variables["input"] = task'[t].argInput
                    /\ ~fn.is_semantic => task'[t].bodyCalls = 1
                    /\ (fn.is_semantic /\ fn.ai_backend # None) =>
                          task'[t].pc = "render"
                    /\ [task'[t] EXCEPT !.wasFailed = FALSE] = r.tk
                    /\ ctx'[c].variables = r.ctx[c].variables
                    /\ ctx'[c].skills = r.ctx[c].skills
                    /\ history' = r.hist /\ userSettings' = r.us
          /\ ( /\ task[t].pc = "render" /\ task[t].wasFailed
               /\ task'[t].thrown = NoExc ) =>
                task'[t].pc = "backend" /\ task'[t].calls = 1]_vars

\* C16 witness: the body of a native function has been called by an
\* invoke_async on a context that was already failed.
C16_Witness ==
    \E t \in Tasks :
        /\ Done(t) /\ task[t].op = "invoke_async" /\ task[t].wasFailed
        /\ ~fn.is_semantic /\ task[t].bodyCalls = 1
        /\ task[t].argInput = "abc"

\* What invoke_async wrote to the default variable before it dispatched.
Written(tk) == IF tk.argInput # None THEN tk.argInput ELSE ""

\* The default variable of the context of call t, from the call alone: the
\* reply of its own backend call once that has succeeded, else the input it
\* wrote (which a native body that returns its input gives back).
OwnResult(t) ==
    IF task[t].pc = "idle" THEN InitialContext.variables["input"]
    ELSE IF Done(t) /\ Succeeded(task[t]) THEN task[t].completion
    ELSE Written(task[t])

\* C17: of two interleaved invocations, each on its own context, each
\* context holds in its default variable the result of its own backend call
\* or native body, and its failure slot is set exactly when its own
\* rendering or backend call has failed, with that failure.
C17_OwnContextOwnResult ==
    \A t \in AllTasks :
        LET c == OwnContext(t) IN
        /\ task[t].pc # "idle" => task[t].context = c
        /\ ctx[c].variables["input"] = OwnResult(t)
        /\ task[t].bodyCalls = 1 => task[t].nativeArg = Written(task[t])
        /\ ctx[c].error_occurred <=> (Done(t) /\ task[t].thrown # NoExc)
        /\ ctx[c].error_occurred => ctx[c].last_exception = task[t].thrown
        /\ (Done(t) /\ task[t].outcome = "returned") => task[t].ret = c

\* C17 witness: both invocations have ended; the first failed in its backend
\* call and the second holds the reply of its own.
C17_Witness ==
    /\ Done("t1") /\ Done("t2")
    /\ task["t1"].thrown # NoExc /\ ctx["c1"].error_occurred
    /\ Succeeded(task["t2"]) /\ ~ctx["c2"].error_occurred
    /\ ctx["c2"].variables["input"] = task["t2"].completion
    /\ ctx["c1"].variables["input"] # ctx["c2"].variables["input"]

\* C18 as stated: while an invocation is under way, another call takes a
\* step only when the invocation awaits a backend call or a native body.
C18_SuspendsAtBackendOrNativeOnly ==
    [][\A t, u \in AllTasks :
          (u # t /\ task'[u] # task[u] /\ task[t].pc \notin {"idle", "done"}) =>
             task[t].pc \in {"backend", "native"}]_vars

\* C18: while an invocation is under way, another call takes a step only
\* when the invocation awaits the rendering of its prompt, a backend call or
\* an asynchronous native body; a step is a step of one call, and a call
\* that has started is at one of these awaits or has ended.
C18_SuspendsAtRenderBackendOrNative ==
    [][/\ \A t, u \in AllTasks :
             (u # t /\ task'[u] # task[u] /\ task[t].pc \notin {"idle", "done"}) =>
                /\ task[t].pc \in {"render", "backend", "native"}
                /\ task'[t] = task[t]
       /\ \A t \in AllTasks :
             /\ task'[t].pc \in {"idle", "render", "backend", "native", "done"}
             /\ task'[t].pc = "native" => fn.delegate_type = "InStringOutTaskString"
             /\ task'[t].pc \in {"render", "backend"} => fn.is_semantic]_vars

\* C18 witness: one invocation awaits the rendering of its prompt while the
\* other awaits its backend call.
C18_Witness ==
    /\ task["t1"].pc = "render"
    /\ task["t2"].pc = "backend"

\* C19: binding a backend factory does not call the factory: a call of
\* set_ai_backend ends with no backend instance made, and the function has
\* a backend instance only once an invocation has needed it.
C19_FactoryCalledLazily ==
    \A t \in Tasks :
        (Done(t) /\ task[t].op = "set_ai_backend") =>
            /\ task[t].factoryCalls = 0
            /\ fn.ai_backend = None

\* C20: a generate_embeddings_async that returns has returned one embedding
\* for each text, the i-th being the embedding of the i-th text; a response
\* with less or more entries than there are texts makes the call raise.
C20_OneEmbeddingPerTextInOrder ==
    \A t \in Tasks :
        (Done(t) /\ task[t].op = "generate_embeddings_async") =>
            LET texts == task[t].argTexts
                out   == task[t].embeddings.ndarray
            IN  /\ task[t].outcome = "returned" =>
                      /\ Len(out) = Len(texts)
                      /\ \A i \in 1..Len(texts) :
                            out[i] = Array(EmbeddingOf(texts[i]))
                /\ Len(task[t].response.data) # Len(texts) =>
                      /\ task[t].outcome = "raised"
                      /\ task[t].exc.type = "AssertionError"
                      /\ out = <<>>

\* C20 witness: the call has returned the embeddings of "a" and "b", in
\* this order.
C20_Witness ==
    \E t \in Tasks :
        /\ Done(t) /\ task[t].op = "generate_embeddings_async"
        /\ task[t].outcome = "returned"
        /\ task[t].argTexts = <<"a", "b">>
        /\ task[t].embeddings = Array(<<Array(<<1, 0>>), Array(<<0, 1>>)>>)

\* C21: the constructor of AzureOpenAIChatBackend, given a deployment name
\* and an API key that are not empty and an endpoint that starts with
\* "https://", returns a backend of API type "azure"; every request of such
\* a backend passes the deployment name as `engine` and passes no `model`.
C21_AzureBackendConstructs ==
    \A t \in Tasks :
        /\ ( /\ Done(t) /\ task[t].op = "AzureOpenAIChatBackend"
             /\ ~IsEmpty(task[t].argModel) /\ ~IsEmpty(task[t].argKey)
             /\ StartsWithHttps(task[t].argEndpoint) ) =>
                /\ task[t].outcome = "returned"
                /\ backend.class = "AzureOpenAIChatBackend"
                /\ backend.api_type = "azure"
                /\ backend.model_id = task[t].argModel
        /\ (task[t].apiCalls = 1 /\ backend.class = "AzureOpenAIChatBackend") =>
                /\ "engine" \in DOMAIN task[t].apiArgs
                /\ task[t].apiArgs["engine"] = backend.model_id
                /\ "model" \notin DOMAIN task[t].apiArgs

ChatOps == {"generate_message_async", "generate_messages_async"}

\* The chat request is invalid: no history, a last message that is not the
\* user's, or a parameter name that is not supported.
InvalidChatRequest(tk) ==
    \/ tk.argHistory = <<>>
    \/ tk.argHistory[Len(tk.argHistory)][1] # "user"
    \/ DOMAIN tk.argKwargs \ ChatValidParams # {}

\* The text request is invalid: no prompt, an empty prompt, or a parameter
\* name that is not supported.
InvalidTextRequest(tk) ==
    \/ tk.argPrompt \in {None, ""}
    \/ DOMAIN tk.argKwargs \ TextValidParams # {}

\* C22: an invalid request of the chat backend or of the text backend ends
\* with ValueError, no pre-hook has been awaited and acreate has not been
\* called.
C22_InvalidRequestNeverSent ==
    \A t \in Tasks :
        ( \/ task[t].op \in ChatOps /\ InvalidChatRequest(task[t])
          \/ task[t].op = "complete_single_async" /\ InvalidTextRequest(task[t]) ) =>
            /\ Done(t) /\ task[t].outcome = "raised"
            /\ task[t].exc.type = "ValueError"
            /\ task[t].hooksRun = 0
            /\ task[t].apiCalls = 0
            /\ task[t].apiArgs = EmptyMap

\* C22 witness: a chat request with the parameter "stream" has been
\* rejected by a backend that has a pre-hook.
C22_Witness ==
    \E t \in Tasks :
        /\ Done(t) /\ task[t].op = "generate_message_async"
        /\ backend.pre_hooks = 1
        /\ "stream" \in DOMAIN task[t].argKwargs
        /\ task[t].argHistory # <<>>
        /\ task[t].argHistory[Len(task[t].argHistory)][1] = "user"
        /\ task[t].exc.type = "ValueError" /\ task[t].apiCalls = 0

\* C23: every call of acreate by the chat backend and by the text backend
\* has a max_tokens argument: the caller's when the caller passed one, and
\* 128 otherwise.
C23_MaxTokensCallerOrDefault ==
    \A t \in Tasks :
        task[t].apiCalls = 1 =>
            /\ "max_tokens" \in DOMAIN task[t].apiArgs
            /\ task[t].apiArgs["max_tokens"] =
                  IF "max_tokens" \in DOMAIN task[t].argKwargs
                  THEN task[t].argKwargs["max_tokens"]
                  ELSE 128

\* C23 witness: the text backend has sent the caller's max_tokens, which is
\* not the default.
C23_Witness ==
    \E t \in Tasks :
        /\ task[t].op = "complete_single_async" /\ task[t].apiCalls = 1
        /\ "max_tokens" \in DOMAIN task[t].argKwargs
        /\ task[t].apiArgs["max_tokens"] = ParamValue["max_tokens"]
        /\ task[t].apiArgs["max_tokens"] # DefaultMaxTokens

\* The parameters a single-completion operation drops.
Dropped(op) ==
    IF op = "generate_message_async" THEN {"n"}
    ELSE IF op = "complete_single_async" THEN {"n", "logprobs", "echo"}
    ELSE {}

\* C24: the call of acreate by generate_message_async has no `n`, the one
\* by complete_single_async has no `n`, `logprobs` or `echo`; every other
\* parameter of the caller is passed with the caller's value, and nothing
\* else is passed but max_tokens and the model; the operation returns the
\* content of the first choice of the response.
C24_SingleCompletionDropsAndForwards ==
    \A t \in Tasks :
        LET tk == task[t]
            kept == DOMAIN tk.argKwargs \ Dropped(tk.op)
        IN  tk.op \in {"generate_message_async", "complete_single_async"} =>
            /\ tk.apiCalls = 1 =>
                  /\ DOMAIN tk.apiArgs \cap Dropped(tk.op) = {}
                  /\ \A k \in kept : /\ k \in DOMAIN tk.apiArgs
                                     /\ tk.apiArgs[k] = tk.argKwargs[k]
                  /\ DOMAIN tk.apiArgs \subseteq
                        kept \cup {"max_tokens", "model", "engine"}
            /\ (Done(t) /\ tk.outcome = "returned") =>
                  /\ tk.apiCalls = 1
                  /\ tk.result = <<tk.apiResponse.choices[1].content>>

\* C24 witness: generate_message_async, called with `n` and `temperature`,
\* has returned the first of two different choices.
C24_Witness ==
    \E t \in Tasks :
        /\ Done(t) /\ task[t].op = "generate_message_async"
        /\ task[t].outcome = "returned"
        /\ {"n", "temperature"} \subseteq DOMAIN task[t].argKwargs
        /\ "temperature" \in DOMAIN task[t].apiArgs
        /\ Len(task[t].apiResponse.choices) = 2
        /\ task[t].apiResponse.choices[1].content # task[t].apiResponse.choices[2].content
        /\ task[t].result = <<task[t].apiResponse.choices[1].content>>

\* The embeddings generator use_memory works with: the one it was given, or
\* the one the factory of the kernel's configuration returns.
GeneratorOf(tk, k) ==
    IF tk.argGenerator # None THEN tk.argGenerator ELSE EmbeddingFactory(k)

\* C25: use_memory, called directly or by build() for the builder's storage,
\* registers SemanticTextMemory(storage, generator) with the kernel when the
\* storage and the generator (given, or from the configuration) are both not
\* None; otherwise it raises ValueError, register_memory is not called and
\* the memory of the kernel stays what it was. build() without a memory
\* storage does not call use_memory and registers nothing.
C25_MemoryOnlyWithStorageAndGenerator ==
    [][\A t \in Tasks :
        LET tk == task'[t]
            g  == GeneratorOf(tk, kernel)
        IN  (task[t].pc = "idle" /\ tk.pc = "done"
                /\ tk.op \in {"use_memory", "build"}) =>
            IF tk.op = "build" /\ tk.argStorage = None
            THEN /\ tk.outcome = "returned" /\ tk.registerCalls = 0
                 /\ kernel'.memory = NullMemory
            ELSE IF tk.argStorage = None \/ g = None
            THEN /\ tk.outcome = "raised" /\ tk.exc.type = "ValueError"
                 /\ tk.registerCalls = 0
                 /\ kernel' = kernel
            ELSE /\ tk.outcome = "returned" /\ tk.registerCalls = 1
                 /\ kernel'.memory = SemanticTextMemory(tk.argStorage, g)]_vars

\* C25 witness: use_memory was given a storage and no generator, the
\* configuration's factory returned None, and it raised without registering.
C25_Witness ==
    \E t \in Tasks :
        /\ task[t].pc = "done" /\ task[t].op = "use_memory"
        /\ task[t].argStorage # None /\ task[t].argGenerator = None
        /\ kernel.has_embedding_backend /\ kernel.embedding_backend = None
        /\ task[t].outcome = "raised" /\ task[t].exc.type = "ValueError"
        /\ task[t].registerCalls = 0

\* C26: a semantic invoke_async leaves the mapping the caller passed as
\* settings as it was: when the call has ended, the mapping holds the keys and
\* values it held when the call was made.
C26_CallerSettingsUntouched ==
    \A t \in Tasks :
        (Done(t) /\ task[t].op = "invoke_async" /\ task[t].argHasSettings
            /\ fn.is_semantic) =>
                userSettings = task[t].argSettings

\* invoke_async is called on a context of the caller and raises because the
\* semantic function has no backend.
RaisesForNoBackend(t) ==
    /\ task[t].pc = "idle" /\ task'[t].pc = "done"
    /\ task'[t].op = "invoke_async" /\ task'[t].outcome = "raised"
    /\ task'[t].argContext # None
    /\ fn.is_semantic /\ fn.ai_backend = None

\* C27: when invoke_async raises because the semantic function has no
\* backend, the context the caller gave is as it was before the call.
C27_RaisingLeavesContextAsItWas ==
    [][\A t \in Tasks : RaisesForNoBackend(t) => ctx' = ctx]_vars

\* C27, amended: when invoke_async raises because the semantic function has
\* no backend, the context the caller gave has been written before the test
\* of the backend: its default variable holds the input if one was given,
\* and a context without a registry is bound to the default registry of the
\* function. Nothing else changes: its other fields, its failure slot, the
\* other contexts and the chat history are as before, and no backend
\* operation is called.
C27_RaisingKeepsInputAndRegistry ==
    [][\A t \in Tasks :
        RaisesForNoBackend(t) =>
            LET c  == task'[t].argContext
                in == task'[t].argInput
            IN  /\ ctx'[c] =
                     [ctx[c] EXCEPT
                        !.variables = IF in = None THEN @
                                      ELSE VariablesUpdate(@, in),
                        !.skills = IF @ = None THEN fn.skill_collection ELSE @]
                /\ \A d \in AllCtxIds \ {c} : ctx'[d] = ctx[d]
                /\ live' = live /\ history' = history
                /\ task'[t].calls = 0]_vars

\* C27 witness: invoke_async with an input, on a context of the caller, has
\* raised for the missing backend; the context holds the input and the
\* default registry of the function.
C27_Witness ==
    \E t \in Tasks :
        /\ Done(t) /\ task[t].op = "invoke_async" /\ task[t].outcome = "raised"
        /\ fn.is_semantic /\ fn.ai_backend = None
        /\ task[t].exc = Exc("ValueError", "none", "AI LLM backend is empty")
        /\ task[t].argContext # None /\ task[t].argInput # None
        /\ ctx[task[t].argContext].variables["input"] = task[t].argInput
        /\ fn.skill_collection # None
        /\ ctx[task[t].argContext].skills = fn.skill_collection

\* The rendering or the backend call of the chat invocation of task t fails
\* in this step.
ChatStepFails(t) ==
    /\ fn.is_semantic /\ fn.has_chat_prompt
    /\ task[t].pc \in {"render", "backend"}
    /\ task[t].thrown = NoExc /\ task'[t].thrown # NoExc

\* C28: when the rendering or the backend call of a chat-style invocation
\* fails, the chat history and the variables of the context stay what they
\* were when the failing operation was called; the failure slot of the
\* context is set to the exception, and nothing else changes: the context's
\* registry and memory, the other contexts, the caller's settings and the
\* function are as before, and the invocation returns the context.
C28_FailedChatStepOnlySetsFailureSlot ==
    [][\A t \in Tasks :
        ChatStepFails(t) =>
            LET c == task[t].context
                e == task'[t].thrown
            IN  /\ history' = history
                /\ ctx'[c].variables = ctx[c].variables
                /\ ctx'[c] = [ctx[c] EXCEPT !.error_occurred = TRUE,
                                            !.last_error_description = e.msg,
                                            !.last_exception = e]
                /\ \A d \in AllCtxIds \ {c} : ctx'[d] = ctx[d]
                /\ live' = live /\ userSettings' = userSettings /\ fn' = fn
                /\ task'[t].pc = "done" /\ task'[t].outcome = "returned"
                /\ task'[t].ret = c]_vars

\* C28 witness: after a chat invocation that succeeded, one whose backend
\* call failed has returned: the history holds the one earlier exchange, the
\* context is failed and its default variable still holds the input.
C28_Witness ==
    \E t \in Tasks :
        /\ Done(t) /\ task[t].op = "invoke_async"
        /\ fn.has_chat_prompt /\ task[t].thrown = BackendError
        /\ task[t].calls = 1 /\ Len(history) = 2
        /\ task[t].argInput # None
        /\ ctx[task[t].ret].error_occurred
        /\ ctx[task[t].ret].variables["input"] = task[t].argInput

\* The exchange of an invocation that has succeeded: the last message it
\* rendered, as the user's, and the reply of its backend call.
ExchangeOf(tk) ==
    << <<"user", tk.messages[Len(tk.messages)][2]>>, <<"assistant", tk.completion>> >>

\* The chat invocations that have appended their exchange.
Appended == {t \in AllTasks : Done(t) /\ Succeeded(task[t])}

\* C29: under every interleaving of two invocations of a chat-style
\* function, the chat history is a sequence of adjacent (user, assistant)
\* pairs, one for each invocation that has succeeded: every pair is the
\* rendered user message and the reply of one and the same invocation, and
\* a step appends a whole pair or nothing.
C29_HistoryIsPairsOfOneInvocation ==
    [][fn.has_chat_prompt =>
        /\ Len(history') = 2 * Cardinality({t \in AllTasks : Done(t)' /\ Succeeded(task[t])'})
        /\ \A i \in 1..(Len(history') \div 2) :
              \E t \in AllTasks :
                  /\ Done(t)' /\ Succeeded(task[t])'
                  /\ SubSeq(history', 2 * i - 1, 2 * i) = ExchangeOf(task'[t])
        /\ \A t \in AllTasks :
              (Done(t)' /\ Succeeded(task[t])') =>
                  \E i \in 1..(Len(history') \div 2) :
                      SubSeq(history', 2 * i - 1, 2 * i) = ExchangeOf(task'[t])
        /\ \/ history' = history
           \/ \E t \in AllTasks :
                 /\ task[t].pc = "backend" /\ Done(t)'
                 /\ history' = history \o ExchangeOf(task'[t])]_vars

\* C29 witness: two invocations whose backend calls overlapped have both
\* succeeded, with different prompts and replies; the history holds the two
\* exchanges, the one of the second invocation first.
C29_Witness ==
    /\ fn.has_chat_prompt
    /\ Appended = AllTasks
    /\ Len(task["t1"].messages) = 1 /\ Len(task["t2"].messages) = 1
    /\ ExchangeOf(task["t1"]) # ExchangeOf(task["t2"])
    /\ task["t1"].completion # task["t2"].completion
    /\ history = ExchangeOf(task["t2"]) \o ExchangeOf(task["t1"])

====
